---- MODULE Spec2Model ----
(***************************************************************************)
(* s3-unzipper: the memory circuit breaker (utils/memory-monitor.ts) and   *)
(* the per-archive entry loop of ZipProcessor (services/zip-processor.ts)  *)
(* with the upload paths of FileUploadHandler and S3Service.               *)
(*                                                                         *)
(* Spec        one process handling archives one after the other           *)
(* MonitorSpec the MemoryMonitor singleton under arbitrary client calls    *)
(* RetrySpec   one call of RetryHandler.withRetry (utils/retry-handler.ts) *)
(* HandlerSpec one invocation of the handler (handlers/s3-unzipper.ts)     *)
(* CsvSpec     one call of CSVProcessor.processCSVStream (utils/validation)*)
(* ClientSpec  the module-scoped S3 client (utils/s3-client-singleton.ts)  *)
(* StemSpec    extractStemName on one filename, and on its own result      *)
(***************************************************************************)
EXTENDS Integers, Sequences, FiniteSets, TLC

\* ------------------------------------------------------------------ bounds
\* clock: Date.now() advances in steps of TickMs from StartNow up to MaxNow
TickMs == 500
StartNow == 1000
MaxNow == 2500

\* heap usage percentages the environment can show at a sample: just below
\* and exactly at each of the two thresholds
UsageLevels == {69, 70, 79, 80}

\* an archive delivers at most MaxEntries entries, a process handles at most
\* MaxArchives archives
MaxEntries == 5
MaxArchives == 2

\* an event carries at most MaxRecords records
MaxRecords == 3

\* the CSV parser emits at most MaxRows rows
MaxRows == 3

\* at most MaxClientCalls calls of the S3 client module are followed
MaxClientCalls == 4

\* a filename is made of at most MaxNameTokens tokens
MaxNameTokens == 3

\* limits.maxFileCount as received by processZipFileEntries; extractZipFile
\* passes 10000, scaled down here so that an archive of MaxEntries reaches it
maxFileCount == 3

\* ------------------------------------------------------- program constants
MiB == 1048576
maxUncompressedSize == 200 * MiB        \* extractZipFile
maxCompressionRatio == 100              \* processZipFileEntries
maxSizeBytes == 50 * MiB                \* validateFileSize, streamToBuffer
memoryCheckBytes == 10 * MiB            \* streamToBuffer
s3MaxAttempts == 4                      \* retryS3Operation
csvProcessingEnabled == TRUE            \* config default
CHECK_INTERVAL_MS == 1000
warningThreshold == 70
circuitBreakerThreshold == 80

VARIABLES
  \* MemoryMonitor (process-wide singleton)
  circuitBreakerTripped,  \* private circuitBreakerTripped
  lastCheckTime,          \* private lastCheckTime
  thresholds,             \* private thresholds
  now,                    \* Date.now()
  \* observation of the monitor's clients (MonitorSpec only)
  lastCall,               \* the latest call: [op, sampled, usage, ret]
  callBit,                \* flips at every call of the monitor
  mustRefuse,             \* a checkpoint sampled >= trip threshold and no
                          \* reset below the warning threshold came since
  \* ZipProcessor.processZipFile, one call at a time
  pc,                     \* position of the call
  archiveNo,              \* number of processZipFile calls started
  zipSize,                \* ContentLength answered by head for the archive
  result,                 \* ProcessingResult: the accumulator, then the value returned
  totalUncompressedSize,  \* limits.totalUncompressedSize
  delivered,              \* 'entry' events emitted by the reader
  entry,                  \* the entry of the latest 'entry' event
  route,                  \* which caller runs uploadStream for the entry
  attempt,                \* withRetry: attempt
  \* observation of one archive's run
  admitted,               \* entries that passed the three limits
  opens,                  \* openReadStream calls for the latest entry
  puts,                   \* objects put for entries of this archive
  runTripped,             \* a checkpoint of this run tripped the breaker
  loopEnd,                \* how the entry loop's promise was settled
  strayStream,            \* a stream of this archive was left open, unread to its end
  abandoned,              \* an upload attempt of this archive timed out and still runs
  latePut,                \* an attempt that had timed out completed its put
  \* RetryHandler.withRetry, one call
  retryPc,                \* position of the call
  context,                \* context: RetryContext
  opts,                   \* const opts
  retryAttempt,           \* let attempt
  lastError,              \* let lastError
  settled,                \* the value returned or the error thrown
  \* observation of the call
  invocations,            \* calls of fn
  failures,               \* attempts that ended with an error
  onlyRetryable,          \* every error so far matched opts.retryableErrors
  delaysTaken,            \* the delays awaited, in order
  \* handler, one invocation
  hPc,                    \* position of the invocation
  records,                \* event.Records
  i,                      \* the loop index
  results,                \* const results
  overallSuccess,         \* let overallSuccess
  remainingTime,          \* context.getRemainingTimeInMillis()
  \* observation of the invocation
  started,                \* indices of the records handed to processS3Record
  zipCalls,               \* calls of zipProcessor.processZipFile
  \* CSVProcessor.processCSVStream, one call
  csvPc,                  \* position of the call
  skipMalformed,          \* this.options.skipMalformed
  rows,                   \* const rows
  hasHeaders,             \* let hasHeaders
  rowCount,               \* let rowCount
  csvResult,              \* how the promise returned was settled
  \* observation of the call
  parsed,                 \* the rows emitted by the parser, in order
  parseFailed,            \* the parser emitted 'error'
  \* s3-client-singleton
  s3ClientInstance,       \* let s3ClientInstance
  clientInitializedAt,    \* let clientInitializedAt, 0 for null
  \* observation of the module
  clientsMade,            \* instances constructed so far
  clientCalls,            \* the calls made and what each returned
  \* extractStemName, one filename
  stemPc,                 \* position: idle, extracted, again
  nameGiven,              \* the argument
  nameTokens,             \* tokens the argument is made of
  stemName,               \* extractStemName(nameGiven)
  stemOfStem              \* extractStemName(stemName)

monVars == <<circuitBreakerTripped, lastCheckTime, now>>
obsVars == <<lastCall, callBit, mustRefuse>>
zipVars == <<pc, archiveNo, zipSize, result, totalUncompressedSize, delivered,
             entry, route, attempt, admitted, opens, puts, runTripped, loopEnd,
             strayStream, abandoned, latePut>>
retryVars == <<retryPc, context, opts, retryAttempt, lastError, settled,
               invocations, failures, onlyRetryable, delaysTaken>>
handlerVars == <<hPc, records, i, results, overallSuccess, remainingTime, started,
                 zipCalls>>
csvVars == <<csvPc, skipMalformed, rows, hasHeaders, rowCount, csvResult, parsed,
             parseFailed>>
clientVars == <<s3ClientInstance, clientInitializedAt, clientsMade, clientCalls>>
stemVars == <<stemPc, nameGiven, nameTokens, stemName, stemOfStem>>
vars == <<circuitBreakerTripped, lastCheckTime, thresholds, now, lastCall, callBit, mustRefuse,
          pc, archiveNo, zipSize, result, totalUncompressedSize, delivered,
          entry, route, attempt, admitted, opens, puts, runTripped, loopEnd,
          strayStream, abandoned, latePut,
          retryPc, context, opts, retryAttempt, lastError, settled,
          invocations, failures, onlyRetryable, delaysTaken,
          hPc, records, i, results, overallSuccess, remainingTime, started, zipCalls,
          csvPc, skipMalformed, rows, hasHeaders, rowCount, csvResult, parsed,
          parseFailed, s3ClientInstance, clientInitializedAt, clientsMade, clientCalls,
          stemPc, nameGiven, nameTokens, stemName, stemOfStem>>

NoUsage == "none"
NoCall == [op |-> "none", sampled |-> FALSE, usage |-> NoUsage, ret |-> TRUE]

\* ------------------------------------------------------------ MemoryMonitor

\* checkMemoryUsage, the throttle test: true when the call returns the cached
\* state without sampling
Throttled == now - lastCheckTime < CHECK_INTERVAL_MS

\* checkMemoryUsage, its return value when process.memoryUsage() shows u
checkMemoryUsageReturns(u) ==
  IF Throttled
  THEN ~circuitBreakerTripped
  ELSE IF u >= thresholds.circuitBreakerThreshold THEN FALSE ELSE TRUE

\* the call time stored before the throttle test
checkMemoryUsageStamps(u) ==
  IF Throttled
  THEN lastCheckTime' = now /\ UNCHANGED circuitBreakerTripped
  ELSE /\ lastCheckTime' = now
       /\ circuitBreakerTripped' =
            IF u >= thresholds.circuitBreakerThreshold THEN TRUE ELSE circuitBreakerTripped

\* the flag follows the latest sample
checkMemoryUsageClears(u) ==
  IF Throttled
  THEN UNCHANGED <<circuitBreakerTripped, lastCheckTime>>
  ELSE /\ lastCheckTime' = now
       /\ circuitBreakerTripped' = (u >= thresholds.circuitBreakerThreshold)

\* checkMemoryUsage, its effect on the monitor
checkMemoryUsage(u) ==
  IF Throttled
  THEN UNCHANGED <<circuitBreakerTripped, lastCheckTime>>
  ELSE /\ lastCheckTime' = now
       /\ circuitBreakerTripped' =
            IF u >= thresholds.circuitBreakerThreshold THEN TRUE ELSE circuitBreakerTripped

\* a checkpoint that samples and trips the breaker
Trips(u) == ~Throttled /\ u >= thresholds.circuitBreakerThreshold

resetCircuitBreakerLax(u) ==
  /\ circuitBreakerTripped' =
       IF u <= thresholds.warningThreshold THEN FALSE ELSE circuitBreakerTripped
  /\ UNCHANGED lastCheckTime

\* resetCircuitBreaker when process.memoryUsage() shows u
resetCircuitBreaker(u) ==
  /\ circuitBreakerTripped' =
       IF u < thresholds.warningThreshold THEN FALSE ELSE circuitBreakerTripped
  /\ UNCHANGED lastCheckTime

\* forceGarbageCollection: samples and logs, changes nothing of the monitor
forceGarbageCollection == UNCHANGED <<circuitBreakerTripped, lastCheckTime>>

\* --------------------------------------------------------------- actions

Tick ==
  /\ now < MaxNow
  /\ now' = now + TickMs
  /\ UNCHANGED <<circuitBreakerTripped, lastCheckTime, thresholds, obsVars, zipVars, retryVars, handlerVars, csvVars, clientVars, stemVars>>

\* a client calls memoryMonitor.checkMemoryUsage(...)
Checkpoint ==
  \E u \in UsageLevels :
    /\ checkMemoryUsage(u)
    /\ lastCall' = [op |-> "check",
                    sampled |-> ~Throttled,
                    usage |-> IF Throttled THEN NoUsage ELSE u,
                    ret |-> checkMemoryUsageReturns(u)]
    /\ callBit' = ~callBit
    /\ mustRefuse' = (mustRefuse \/ Trips(u))
    /\ UNCHANGED <<now, thresholds, zipVars, retryVars, handlerVars, csvVars, clientVars, stemVars>>

\* a client calls memoryMonitor.resetCircuitBreaker()
Reset ==
  \E u \in UsageLevels :
    /\ resetCircuitBreaker(u)
    /\ lastCall' = [op |-> "reset", sampled |-> TRUE, usage |-> u, ret |-> TRUE]
    /\ callBit' = ~callBit
    /\ mustRefuse' = (mustRefuse /\ ~(u < thresholds.warningThreshold))
    /\ UNCHANGED <<now, thresholds, zipVars, retryVars, handlerVars, csvVars, clientVars, stemVars>>

\* a client calls memoryMonitor.forceGarbageCollection(...)
GarbageCollect ==
  /\ forceGarbageCollection
  /\ lastCall' = [op |-> "gc", sampled |-> TRUE, usage |-> NoUsage, ret |-> TRUE]
  /\ callBit' = ~callBit
  /\ UNCHANGED <<now, thresholds, mustRefuse, zipVars, retryVars, handlerVars, csvVars, clientVars, stemVars>>

\* newThresholds of updateThresholds: a higher warning threshold, a lower trip
\* threshold, the thresholds of the constructor
ThresholdUpdates ==
  { [warningThreshold |-> 79],
    [circuitBreakerThreshold |-> 70],
    [warningThreshold |-> warningThreshold,
     circuitBreakerThreshold |-> circuitBreakerThreshold] }

\* a client calls memoryMonitor.updateThresholds(newThresholds)
UpdateThresholds ==
  \E newThresholds \in ThresholdUpdates :
    /\ thresholds' = [ k \in DOMAIN thresholds |->
                         IF k \in DOMAIN newThresholds
                         THEN newThresholds[k] ELSE thresholds[k] ]
    /\ lastCall' = [op |-> "update", sampled |-> FALSE, usage |-> NoUsage, ret |-> TRUE]
    /\ callBit' = ~callBit
    /\ UNCHANGED <<circuitBreakerTripped, lastCheckTime, now, mustRefuse, zipVars,
                   retryVars, handlerVars, csvVars, clientVars, stemVars>>

\* ------------------------------------------------------------- the archive

\* yauzl.Entry: dir stands for a fileName ending in '/', csv for one ending
\* in .csv
NoEntry == [dir |-> FALSE, uncompressedSize |-> -1, compressedSize |-> -1, csv |-> FALSE]

Entries ==
  { [dir |-> TRUE,  uncompressedSize |-> 0,         compressedSize |-> 0,       csv |-> FALSE],
    [dir |-> FALSE, uncompressedSize |-> 0,         compressedSize |-> 0,       csv |-> FALSE],
    [dir |-> FALSE, uncompressedSize |-> 1000,      compressedSize |-> 10,      csv |-> FALSE],
    [dir |-> FALSE, uncompressedSize |-> 1000,      compressedSize |-> 10,      csv |-> TRUE],
    [dir |-> FALSE, uncompressedSize |-> 1001,      compressedSize |-> 10,      csv |-> FALSE],
    [dir |-> FALSE, uncompressedSize |-> 101,       compressedSize |-> 0,       csv |-> FALSE],
    [dir |-> FALSE, uncompressedSize |-> 100 * MiB, compressedSize |-> 2 * MiB, csv |-> FALSE] }

\* what head answers: -1 for a failed call, else ContentLength
HeadAnswers == {-1, 0, MiB, 20 * MiB, 50 * MiB + 1}

\* how a storage call or a stream read ends
IoOutcomes == {"ok", "retryable", "fatal"}

TooManyFiles == "Too many files in zip"
SuspiciousRatio == "Suspicious compression ratio detected"
SizeLimit == "Decompression size limit exceeded"
MemoryAbort == "Memory usage too high - aborting zip entry processing"
EntryError == "Failed to process entry"
ZipError == "Failed to process zip file"
SizeValidation == "File size validation failed"

LimitErrors == {TooManyFiles, SuspiciousRatio, SizeLimit}

EmptyResult == [success |-> TRUE, filesProcessed |-> 0, errors |-> <<>>]
\* the failure returned without its message
FailedResultNoError(msg) == [success |-> FALSE, filesProcessed |-> 0, errors |-> <<>>]
FailedResult(msg) == [success |-> FALSE, filesProcessed |-> 0, errors |-> <<msg>>]

\* ----------------------------------------------------- pure parts of the code

\* the size test without the ceiling
validateFileSizeNoCeiling(size) == size # -1 /\ size # 0

\* validateFileSize: isValid for the answer of head
validateFileSize(size) == size # -1 /\ size # 0 /\ ~(size > maxSizeBytes)

\* processZipFileEntries: the entry-count test
CountLimitReached(res) == res.filesProcessed >= maxFileCount

\* processZipFileEntries: entry.compressedSize || 1
compressedSizeOf(e) == IF e.compressedSize = 0 THEN 1 ELSE e.compressedSize

\* the ratio rounded down before the comparison
RatioExceededFloor(e) ==
  (e.uncompressedSize \div compressedSizeOf(e)) > maxCompressionRatio

\* processZipFileEntries: fileSize / compressedSize > maxCompressionRatio
RatioExceeded(e) == e.uncompressedSize > maxCompressionRatio * compressedSizeOf(e)

\* the running total compared without the entry at hand
SizeLimitExceededLate(total, e) == total > maxUncompressedSize

\* processZipFileEntries: the cumulative-size test
SizeLimitExceeded(total, e) == total + e.uncompressedSize > maxUncompressedSize

\* processZipEntry: directories and empty files are skipped
Skipped(e) == e.dir \/ e.uncompressedSize = 0

\* uploadFileFromZip: the CSV route
UsesCsvRoute(e) == e.csv /\ csvProcessingEnabled

\* any recorded error fails the archive
DetermineSuccessStrict(res) ==
  IF Len(res.errors) > 0
  THEN [res EXCEPT !.success = FALSE]
  ELSE res

\* extractZipFile: "Determine overall success"
DetermineSuccess(res) ==
  IF res.filesProcessed = 0 /\ Len(res.errors) > 0
  THEN [res EXCEPT !.success = FALSE]
  ELSE res

\* extractZipFile: the value returned when the loop's promise rejects
RejectedResult(res) ==
  [success |-> FALSE, filesProcessed |-> res.filesProcessed, errors |-> <<ZipError>>]

\* the rejection recorded without clearing success
RejectedKeepsSuccess(res, msg) == [res EXCEPT !.errors = Append(@, msg)]

\* processZipFileEntries: a limit or memory rejection
Rejected(res, msg) == [res EXCEPT !.errors = Append(@, msg), !.success = FALSE]

\* withRetry: another attempt follows a failed one
RetryAgain(att, o) == ~(att >= s3MaxAttempts) /\ o = "retryable"

\* streamToBuffer: a chunk brings the running size to 10 MiB or beyond, where
\* the loop calls the checkpoint
StreamChecksMemory(bytes) == bytes >= memoryCheckBytes

\* streamToBuffer: the running size passes the 50 MiB limit
StreamTooLarge(bytes) == bytes > maxSizeBytes

\* streamToBuffer: bytes the stream still yields; the stream handed to
\* uploadStream is read by the first attempt
StreamBytes(size, att) == IF att = 1 THEN size ELSE 0

\* ------------------------------------------------ steps shared by the actions

MemCheck(u) ==
  /\ checkMemoryUsage(u)
  /\ runTripped' = (runTripped \/ Trips(u))
  /\ UNCHANGED <<now, thresholds, obsVars, retryVars, handlerVars, csvVars, clientVars, stemVars>>

NoMemCheck == UNCHANGED <<monVars, thresholds, obsVars, runTripped, retryVars, handlerVars, csvVars, clientVars, stemVars>>

\* processZipFile returns res
Return(res, how) ==
  /\ pc' = "returned"
  /\ result' = res
  /\ loopEnd' = how
  /\ route' = "none"
  /\ attempt' = 0

GoTo(p, att) ==
  /\ pc' = p
  /\ attempt' = att
  /\ UNCHANGED <<result, route, loopEnd>>

\* processZipFileEntries: processZipEntry returned
EntrySucceeded ==
  /\ pc' = "reading"
  /\ result' = [result EXCEPT !.filesProcessed = @ + 1]
  /\ route' = "none"
  /\ attempt' = 0
  /\ UNCHANGED loopEnd

\* the entry's failure rejects the loop's promise, as processZipEntries of
\* zip-utils does
EntryFailedRejects ==
  /\ pc' = "returned"
  /\ result' = RejectedResult(result)
  /\ route' = "none"
  /\ attempt' = 0
  /\ UNCHANGED loopEnd

\* processZipFileEntries: processZipEntry threw
EntryFailed ==
  /\ pc' = "reading"
  /\ result' = [result EXCEPT !.errors = Append(@, EntryError)]
  /\ route' = "none"
  /\ attempt' = 0
  /\ UNCHANGED loopEnd

\* the fallback hands the stream already opened for the entry to uploadStream
StartFallbackReusesStream(r) ==
  /\ pc' = "up_start"
  /\ route' = r
  /\ attempt' = 0
  /\ UNCHANGED <<result, loopEnd>>

\* handleCSVUpload calls uploadOriginalFileAsFallback, from its try block
\* (r = "fb_try") or from its catch block (r = "fb_catch")
StartFallback(r) ==
  /\ pc' = "open"
  /\ route' = r
  /\ attempt' = 0
  /\ UNCHANGED <<result, loopEnd>>

\* openZipEntryStream or uploadStream threw: handleDirectUpload lets it
\* through, a fallback called inside the try block lands in the catch block
UploadThrows == IF route = "fb_try" THEN StartFallback("fb_catch") ELSE EntryFailed

\* ------------------------------------------------------------ processZipFile

StartProcessZipFile ==
  /\ pc \in {"idle", "returned"}
  /\ archiveNo < MaxArchives
  /\ archiveNo' = archiveNo + 1
  /\ zipSize' = 0
  /\ totalUncompressedSize' = 0
  /\ delivered' = 0
  /\ entry' = NoEntry
  /\ admitted' = 0
  /\ opens' = 0
  /\ puts' = 0
  /\ loopEnd' = "none"
  /\ strayStream' = FALSE
  /\ abandoned' = FALSE
  /\ latePut' = FALSE
  /\ route' = "none"
  /\ attempt' = 0
  /\ \E u \in UsageLevels :
       /\ checkMemoryUsage(u)
       /\ runTripped' = Trips(u)
       /\ IF checkMemoryUsageReturns(u)
          THEN pc' = "head" /\ result' = EmptyResult
          ELSE pc' = "returned" /\ result' = FailedResult(ZipError)
  /\ UNCHANGED <<now, thresholds, obsVars, retryVars, handlerVars, csvVars, clientVars, stemVars>>

ValidateFileSize ==
  /\ pc = "head"
  /\ \E size \in HeadAnswers :
       IF validateFileSize(size)
       THEN GoTo("dl_start", 0) /\ zipSize' = size
       ELSE Return(FailedResult(SizeValidation), "none") /\ zipSize' = size
  /\ NoMemCheck
  /\ UNCHANGED <<archiveNo, totalUncompressedSize, delivered, entry, admitted, opens, puts>>
  /\ UNCHANGED <<strayStream, abandoned, latePut>>

\* getObjectAsBuffer: an attempt begins, the checkpoint and then the get is sent
DownloadStart ==
  /\ pc = "dl_start"
  /\ \E u \in UsageLevels :
       /\ MemCheck(u)
       /\ IF checkMemoryUsageReturns(u)
          THEN GoTo("dl_send", attempt + 1)
          ELSE Return(FailedResult(ZipError), "none")
  /\ UNCHANGED <<archiveNo, zipSize, totalUncompressedSize, delivered, entry, admitted, opens, puts>>
  /\ UNCHANGED <<strayStream, abandoned, latePut>>

\* getObjectAsBuffer: the get answers
DownloadSend ==
  /\ pc = "dl_send"
  /\ \E o \in IoOutcomes \cup {"nobody"} :
       IF o = "ok"
       THEN \E u \in UsageLevels :
              /\ MemCheck(u)
              /\ IF checkMemoryUsageReturns(u)
                 THEN GoTo("dl_buffer", attempt)
                 ELSE Return(FailedResult(ZipError), "none")
       ELSE /\ NoMemCheck
            /\ IF RetryAgain(attempt, o)
               THEN GoTo("dl_delay", attempt)
               ELSE Return(FailedResult(ZipError), "none")
  /\ UNCHANGED <<archiveNo, zipSize, totalUncompressedSize, delivered, entry, admitted, opens, puts>>
  /\ UNCHANGED <<strayStream, abandoned, latePut>>

\* getObjectAsBuffer: streamToBuffer reads the body
DownloadBuffer ==
  /\ pc = "dl_buffer"
  /\ \E o \in IoOutcomes :
       /\ IF StreamChecksMemory(zipSize)
          THEN \E u \in UsageLevels :
                 /\ MemCheck(u)
                 /\ IF ~checkMemoryUsageReturns(u) \/ StreamTooLarge(zipSize)
                    THEN Return(FailedResult(ZipError), "none")
                    ELSE IF o = "ok" THEN GoTo("dl_done", attempt)
                    ELSE IF RetryAgain(attempt, o) THEN GoTo("dl_delay", attempt)
                    ELSE Return(FailedResult(ZipError), "none")
          ELSE /\ NoMemCheck
               /\ IF o = "ok" THEN GoTo("dl_done", attempt)
                  ELSE IF RetryAgain(attempt, o) THEN GoTo("dl_delay", attempt)
                  ELSE Return(FailedResult(ZipError), "none")
  /\ UNCHANGED <<archiveNo, zipSize, totalUncompressedSize, delivered, entry, admitted, opens, puts>>
  /\ UNCHANGED <<strayStream, abandoned, latePut>>

\* withRetry: the backoff delay has passed
DownloadDelay ==
  /\ pc = "dl_delay"
  /\ GoTo("dl_start", attempt)
  /\ NoMemCheck
  /\ UNCHANGED <<archiveNo, zipSize, totalUncompressedSize, delivered, entry, admitted, opens, puts>>
  /\ UNCHANGED <<strayStream, abandoned, latePut>>

\* processZipFile: checkpoint after the download, then extractZipFile opens
\* the archive and processZipFileEntries asks for the first entry
OpenArchive ==
  /\ pc = "dl_done"
  /\ zipSize' = 0
  /\ \E u \in UsageLevels, opened \in BOOLEAN :
       /\ MemCheck(u)
       /\ IF checkMemoryUsageReturns(u) /\ opened
          THEN GoTo("reading", 0)
          ELSE Return(FailedResult(ZipError), "none")
  /\ UNCHANGED <<archiveNo, totalUncompressedSize, delivered, entry, admitted, opens, puts>>
  /\ UNCHANGED <<strayStream, abandoned, latePut>>

\* ------------------------------------------------------ processZipFileEntries

\* zipfile.on('entry'): the limits, the checkpoint, then processZipEntry up to
\* its first await
EntryEvent ==
  /\ pc = "reading"
  /\ delivered < MaxEntries
  /\ delivered' = delivered + 1
  /\ opens' = 0
  /\ \E e \in Entries :
       /\ entry' = e
       /\ IF CountLimitReached(result)
          THEN /\ Return(DetermineSuccess(Rejected(result, TooManyFiles)), "abort")
               /\ NoMemCheck
               /\ UNCHANGED <<totalUncompressedSize, admitted>>
          ELSE IF RatioExceeded(e)
          THEN /\ Return(DetermineSuccess(Rejected(result, SuspiciousRatio)), "abort")
               /\ NoMemCheck
               /\ UNCHANGED <<totalUncompressedSize, admitted>>
          ELSE IF SizeLimitExceeded(totalUncompressedSize, e)
          THEN /\ Return(DetermineSuccess(Rejected(result, SizeLimit)), "abort")
               /\ NoMemCheck
               /\ UNCHANGED <<totalUncompressedSize, admitted>>
          ELSE /\ totalUncompressedSize' = totalUncompressedSize + e.uncompressedSize
               /\ admitted' = admitted + 1
               /\ \E u \in UsageLevels :
                    /\ MemCheck(u)
                    /\ IF ~checkMemoryUsageReturns(u)
                       THEN Return(DetermineSuccess(Rejected(result, MemoryAbort)), "abort")
                       ELSE IF Skipped(e)
                       THEN EntrySucceeded
                       ELSE /\ pc' = IF UsesCsvRoute(e) THEN "csv_open" ELSE "open"
                            /\ route' = "direct"
                            /\ attempt' = 0
                            /\ UNCHANGED <<result, loopEnd>>
  /\ UNCHANGED <<archiveNo, zipSize, puts>>
  /\ UNCHANGED <<strayStream, abandoned, latePut>>

\* zipfile.on('end')
ReaderEnd ==
  /\ pc = "reading"
  /\ Return(DetermineSuccess(result), "end")
  /\ NoMemCheck
  /\ UNCHANGED <<archiveNo, zipSize, totalUncompressedSize, delivered, entry, admitted, opens, puts>>
  /\ UNCHANGED <<strayStream, abandoned, latePut>>

\* zipfile.on('error')
ReaderError ==
  /\ pc = "reading"
  /\ Return(RejectedResult(result), "error")
  /\ NoMemCheck
  /\ UNCHANGED <<archiveNo, zipSize, totalUncompressedSize, delivered, entry, admitted, opens, puts>>
  /\ UNCHANGED <<strayStream, abandoned, latePut>>

\* --------------------------------------------- FileUploadHandler, S3Service

\* handleDirectUpload / uploadOriginalFileAsFallback: openZipEntryStream
OpenStream ==
  /\ pc = "open"
  /\ opens' = opens + 1
  /\ \E ok \in BOOLEAN :
       IF ok THEN GoTo("up_start", 0) ELSE UploadThrows
  /\ NoMemCheck
  /\ UNCHANGED <<archiveNo, zipSize, totalUncompressedSize, delivered, entry, admitted, puts>>
  /\ UNCHANGED <<strayStream, abandoned, latePut>>

\* uploadStream: an attempt begins
UploadStart ==
  /\ pc = "up_start"
  /\ \E u \in UsageLevels :
       /\ MemCheck(u)
       /\ IF checkMemoryUsageReturns(u)
          THEN GoTo("up_buffer", attempt + 1) /\ UNCHANGED strayStream
          ELSE UploadThrows /\ strayStream' = (strayStream \/ attempt = 0)
  /\ UNCHANGED <<archiveNo, zipSize, totalUncompressedSize, delivered, entry, admitted, opens, puts>>
  /\ UNCHANGED <<abandoned, latePut>>

\* uploadStream: streamToBuffer reads the entry stream
UploadBuffer ==
  /\ pc = "up_buffer"
  /\ \E o \in IoOutcomes :
       LET bytes == StreamBytes(entry.uncompressedSize, attempt) IN
       IF StreamChecksMemory(bytes)
       THEN \E u \in UsageLevels :
              /\ MemCheck(u)
              /\ IF ~checkMemoryUsageReturns(u) \/ StreamTooLarge(bytes)
                 THEN UploadThrows
                 ELSE IF o = "ok" THEN GoTo("up_check", attempt)
                 ELSE IF RetryAgain(attempt, o) THEN GoTo("up_delay", attempt)
                 ELSE UploadThrows
       ELSE /\ NoMemCheck
            /\ IF o = "ok" THEN GoTo("up_check", attempt)
               ELSE IF RetryAgain(attempt, o) THEN GoTo("up_delay", attempt)
               ELSE UploadThrows
  /\ UNCHANGED <<archiveNo, zipSize, totalUncompressedSize, delivered, entry, admitted, opens, puts>>
  /\ UNCHANGED <<strayStream, abandoned, latePut>>

\* uploadStream: checkpoint after the buffer was built, then the put is sent
UploadCheck ==
  /\ pc = "up_check"
  /\ \E u \in UsageLevels :
       /\ MemCheck(u)
       /\ IF checkMemoryUsageReturns(u)
          THEN GoTo("up_put", attempt)
          ELSE UploadThrows
  /\ UNCHANGED <<archiveNo, zipSize, totalUncompressedSize, delivered, entry, admitted, opens, puts>>
  /\ UNCHANGED <<strayStream, abandoned, latePut>>

\* uploadStream: the put answers
UploadPut ==
  /\ pc = "up_put"
  /\ \E o \in IoOutcomes :
       IF o = "ok" THEN EntrySucceeded /\ puts' = puts + 1
       ELSE IF RetryAgain(attempt, o) THEN GoTo("up_delay", attempt) /\ UNCHANGED puts
       ELSE UploadThrows /\ UNCHANGED puts
  /\ NoMemCheck
  /\ UNCHANGED <<archiveNo, zipSize, totalUncompressedSize, delivered, entry, admitted, opens>>
  /\ UNCHANGED <<strayStream, abandoned, latePut>>

\* withRetry: the backoff delay has passed
UploadDelay ==
  /\ pc = "up_delay"
  /\ GoTo("up_start", attempt)
  /\ NoMemCheck
  /\ UNCHANGED <<archiveNo, zipSize, totalUncompressedSize, delivered, entry, admitted, opens, puts>>
  /\ UNCHANGED <<strayStream, abandoned, latePut>>

\* handleCSVUpload: openZipEntryStream
CsvOpen ==
  /\ pc = "csv_open"
  /\ opens' = opens + 1
  /\ \E ok \in BOOLEAN :
       IF ok THEN GoTo("csv_transform", 0) ELSE StartFallback("fb_catch")
  /\ NoMemCheck
  /\ UNCHANGED <<archiveNo, zipSize, totalUncompressedSize, delivered, entry, admitted, puts>>
  /\ UNCHANGED <<strayStream, abandoned, latePut>>

\* handleCSVUpload: processCSVStream answers a buffer, null or throws; when
\* the entry's stream itself emits 'error', which pipe() does not pass on to
\* the parser and nothing listens to, the promise of processCSVStream is left
\* unsettled and the error is an uncaught exception of the process
CsvTransform ==
  /\ pc = "csv_transform"
  /\ \E o \in {"buffer", "none", "throws", "uncaught"}, parserFailed \in BOOLEAN :
       /\ o = "buffer" => ~parserFailed
       /\ o = "throws" => parserFailed
       /\ o = "uncaught" => ~parserFailed
       /\ strayStream' = (strayStream \/ parserFailed)
       /\ IF o = "uncaught" THEN GoTo("crashed", 0)
          ELSE IF o = "buffer" THEN GoTo("csv_upload", 0)
          ELSE IF o = "none" THEN StartFallback("fb_try")
          ELSE StartFallback("fb_catch")
  /\ NoMemCheck
  /\ UNCHANGED <<archiveNo, zipSize, totalUncompressedSize, delivered, entry, admitted, opens, puts>>
  /\ UNCHANGED <<abandoned, latePut>>

\* uploadBuffer: the checkpoint, then the put is sent
CsvUploadBuffer ==
  /\ pc = "csv_upload"
  /\ \E u \in UsageLevels :
       /\ MemCheck(u)
       /\ IF checkMemoryUsageReturns(u)
          THEN GoTo("csv_put", 0)
          ELSE StartFallback("fb_catch")
  /\ UNCHANGED <<archiveNo, zipSize, totalUncompressedSize, delivered, entry, admitted, opens, puts>>
  /\ UNCHANGED <<strayStream, abandoned, latePut>>

\* uploadBuffer: the put answers
CsvPut ==
  /\ pc = "csv_put"
  /\ \E o \in IoOutcomes :
       IF o = "ok" THEN EntrySucceeded /\ puts' = puts + 1
       ELSE StartFallback("fb_catch") /\ UNCHANGED puts
  /\ NoMemCheck
  /\ UNCHANGED <<archiveNo, zipSize, totalUncompressedSize, delivered, entry, admitted, opens>>
  /\ UNCHANGED <<strayStream, abandoned, latePut>>

\* withTimeout: the timer of an uploadStream attempt fires while
\* streamToBuffer reads the stream or while the put is sent; the attempt is
\* not cancelled and goes on reading or sending, and withRetry throws as for
\* any error it does not retry
UploadTimesOut ==
  /\ pc \in {"up_buffer", "up_put"}
  /\ pc = "up_buffer" => attempt = 1
  /\ UploadThrows
  /\ abandoned' = TRUE
  /\ UNCHANGED <<strayStream, latePut>>
  /\ NoMemCheck
  /\ UNCHANGED <<archiveNo, zipSize, totalUncompressedSize, delivered, entry, admitted, opens, puts>>

\* the attempt that timed out settles: its put is answered, or its read, its
\* checkpoint or its put fails; latePut records a put answered after the loop
\* has gone on from the attempt's entry or after processZipFile has returned
AbandonedSettles ==
  /\ abandoned
  /\ pc # "crashed"
  /\ abandoned' = FALSE
  /\ \E answered \in BOOLEAN :
       latePut' = (latePut \/ (answered /\ pc \in {"reading", "returned"}))
  /\ UNCHANGED <<pc, archiveNo, zipSize, result, totalUncompressedSize, delivered,
                 entry, route, attempt, admitted, opens, puts, loopEnd, strayStream>>
  /\ NoMemCheck

\* ------------------------------------------------------------- RetryHandler

DEFAULT_RETRYABLE_ERRORS ==
  { "NetworkingError", "TimeoutError", "ThrottlingException", "ServiceUnavailable",
    "InternalServerError", "SlowDown", "RequestTimeout", "TooManyRequests",
    "Connection", "ECONNRESET", "ETIMEDOUT", "ENOTFOUND" }

DEFAULT_OPTIONS ==
  [ maxAttempts |-> 3, baseDelayMs |-> 1000, maxDelayMs |-> 30000,
    backoffMultiplier |-> 2, retryableErrors |-> DEFAULT_RETRYABLE_ERRORS,
    timeoutMs |-> 60000 ]

\* the storage list with a pattern that every Error's string form contains
s3RetryOptionsAnyError ==
  [ maxAttempts |-> 4, baseDelayMs |-> 500, maxDelayMs |-> 16000,
    backoffMultiplier |-> 2,
    retryableErrors |-> DEFAULT_RETRYABLE_ERRORS \cup
      { "NoSuchBucket", "AccessDenied", "RequestTimeoutError", "SlowDown",
        "BandwidthLimitExceeded", "Error" },
    timeoutMs |-> 45000 ]

\* retryS3Operation: s3RetryOptions
s3RetryOptions ==
  [ maxAttempts |-> 4, baseDelayMs |-> 500, maxDelayMs |-> 16000,
    backoffMultiplier |-> 2,
    retryableErrors |-> DEFAULT_RETRYABLE_ERRORS \cup
      { "NoSuchBucket", "AccessDenied", "RequestTimeoutError", "SlowDown",
        "BandwidthLimitExceeded" },
    timeoutMs |-> 45000 ]

\* retryCSVOperation: csvRetryOptions
csvRetryOptions ==
  [ maxAttempts |-> 2, baseDelayMs |-> 1000, maxDelayMs |-> 5000,
    backoffMultiplier |-> 2,
    retryableErrors |-> {"NetworkingError", "TimeoutError", "EMFILE", "ENOMEM", "ENOTFOUND"},
    timeoutMs |-> 30000 ]

\* options a caller of withRetry passes itself: a ceiling that the third delay
\* reaches
callerOptions == [ maxAttempts |-> 4, maxDelayMs |-> 3000 ]

\* withRetry: { ...DEFAULT_OPTIONS, ...options }
MergeOptions(defaults, options) ==
  [ k \in DOMAIN defaults |-> IF k \in DOMAIN options THEN options[k] ELSE defaults[k] ]

\* the calls of the executor: withRetry itself with no options and with
\* callerOptions, retryS3Operation for the download and for the upload,
\* retryCSVOperation
RetryCalls ==
  { [ operation |-> "test", options |-> [ maxAttempts |-> 3 ] ],
    [ operation |-> "test", options |-> callerOptions ],
    [ operation |-> "s3_download", options |-> s3RetryOptions ],
    [ operation |-> "s3_upload_stream", options |-> s3RetryOptions ],
    [ operation |-> "csv_processing", options |-> csvRetryOptions ] }

NoError == [name |-> "", message |-> ""]

\* the errors thrown when a checkpoint refuses inside a storage operation
MemoryErrors ==
  { [name |-> "StructuredError", message |-> "Cannot start S3 download - memory usage too high"],
    [name |-> "StructuredError", message |-> "Cannot convert S3 stream to buffer - memory usage too high"],
    [name |-> "StructuredError", message |-> "Cannot start S3 upload - memory usage too high"],
    [name |-> "StructuredError", message |-> "Cannot upload to S3 - memory usage too high after buffer creation"],
    [name |-> "Error", message |-> "Stream to buffer conversion aborted - memory usage too high"] }

\* getObjectAsBuffer: the response of the download has no body
EmptyBodyError == [name |-> "StructuredError", message |-> "No body returned for object"]

\* the retryable option createError was called with: true for the empty
\* body, false for a refused checkpoint, undefined for any other error
retryable(error) ==
  IF error = EmptyBodyError THEN "true"
  ELSE IF error \in MemoryErrors /\ error.name = "StructuredError" THEN "false"
  ELSE "undefined"

\* what fn can reject with: the memory errors, errors of the storage service
\* and of the runtime, and an Error without a message; none of the messages
\* holds a path, a URL, an address or an e-mail
ErrorsThrown ==
  MemoryErrors \cup
  { EmptyBodyError,
    [name |-> "Error", message |-> "NetworkingError"],
    [name |-> "Error", message |-> "ValidationError"],
    [name |-> "Error", message |-> "EMFILE"],
    [name |-> "SlowDown", message |-> "Please reduce your request rate."],
    [name |-> "AccessDenied", message |-> "Access Denied"],
    [name |-> "NoSuchKey", message |-> "The specified key does not exist."],
    [name |-> "Error", message |-> ""] }

\* the value fn resolves with
OpValue == "success"

Unsettled == [kind |-> "none", value |-> ""]

\* Math.random(), in thousandths
JitterLevels == {0, 500, 999}

\* String.prototype.includes
Includes(str, pattern) ==
  \E k \in 1..(Len(str) - Len(pattern) + 1) : SubSeq(str, k, k + Len(pattern) - 1) = pattern

\* Error.prototype.toString
errorToString(error) ==
  IF error.message = "" THEN error.name
  ELSE IF error.name = "" THEN error.message
  ELSE error.name \o ": " \o error.message

\* isRetryableError
isRetryableError(error, retryableErrors) ==
  \E retryableError \in retryableErrors :
    \/ Includes(error.name, retryableError)
    \/ Includes(error.message, retryableError)
    \/ Includes(errorToString(error), retryableError)

\* base ** n
RECURSIVE Pow(_, _)
Pow(base, n) == IF n = 0 THEN 1 ELSE base * Pow(base, n - 1)

Min(a, b) == IF a < b THEN a ELSE b

\* the exponential part without the ceiling
exponentialDelayUncapped(attemptNumber, options) ==
  options.baseDelayMs * Pow(options.backoffMultiplier, attemptNumber)

\* calculateDelay: const exponentialDelay
exponentialDelay(attemptNumber, options) ==
  Min(options.baseDelayMs * Pow(options.backoffMultiplier, attemptNumber),
      options.maxDelayMs)

\* calculateDelay, Math.random() giving random thousandths:
\* Math.floor(exponentialDelay + random * 0.1 * exponentialDelay)
calculateDelay(attemptNumber, options, random) ==
  exponentialDelay(attemptNumber, options)
    + (random * exponentialDelay(attemptNumber, options)) \div 10000

\* withTimeout: the error of the timer
TimedOut(timeoutMs) ==
  [name |-> "Error", message |-> "Operation timed out after " \o ToString(timeoutMs) \o "ms"]

\* sanitizeErrorMessage, for a message without path, URL, address or e-mail
sanitizeErrorMessage(message) == IF message = "" THEN "[empty-message]" ELSE message

\* withRetry: the message of finalError
finalErrorMessage(ctx, att, error) ==
  "Operation '" \o ctx.operation \o "' failed after " \o ToString(att) \o " attempts: "
    \o (IF error = NoError THEN "Unknown error" ELSE sanitizeErrorMessage(error.message))

\* the last attempt recognised one attempt late
isLastAttemptLate(att, options) == att > options.maxAttempts

\* withRetry: const isLastAttempt
isLastAttempt(att, options) == att >= options.maxAttempts

\* every failure before the last attempt is retried
GivesUpOnLastOnly(att, error, options) == isLastAttempt(att, options)

\* withRetry: the two breaks of the catch block
GivesUp(att, error, options) ==
  \/ isLastAttempt(att, options)
  \/ ~isRetryableError(error, options.retryableErrors)

\* withRetry: throw finalError
ThrowFinal(error) ==
  /\ retryPc' = "thrown"
  /\ settled' = [kind |-> "error",
                 value |-> finalErrorMessage(context, retryAttempt, error)]

\* withRetry: the catch block
Catch(error) ==
  /\ lastError' = error
  /\ failures' = failures + 1
  /\ onlyRetryable' = (onlyRetryable /\ isRetryableError(error, opts.retryableErrors))
  /\ IF GivesUp(retryAttempt, error, opts)
     THEN ThrowFinal(error) /\ UNCHANGED delaysTaken
     ELSE /\ \E random \in JitterLevels :
               delaysTaken' =
                 Append(delaysTaken, calculateDelay(retryAttempt - 1, opts, random))
          /\ retryPc' = "delay"
          /\ UNCHANGED settled
  /\ UNCHANGED <<context, opts, retryAttempt, invocations>>
  /\ UNCHANGED <<monVars, thresholds, obsVars, zipVars, handlerVars, csvVars, clientVars, stemVars>>

\* a caller enters withRetry
WithRetry ==
  /\ retryPc = "idle"
  /\ \E call \in RetryCalls :
       /\ context' = [operation |-> call.operation]
       /\ opts' = MergeOptions(DEFAULT_OPTIONS, call.options)
  /\ retryPc' = "loop"
  /\ UNCHANGED <<retryAttempt, lastError, settled, invocations, failures,
                 onlyRetryable, delaysTaken>>
  /\ UNCHANGED <<monVars, thresholds, obsVars, zipVars, handlerVars, csvVars, clientVars, stemVars>>

\* while (attempt < opts.maxAttempts) { attempt++; ... fn() ...
AttemptBegins ==
  /\ retryPc = "loop"
  /\ IF retryAttempt < opts.maxAttempts
     THEN /\ retryAttempt' = retryAttempt + 1
          /\ invocations' = invocations + 1
          /\ retryPc' = "running"
          /\ UNCHANGED settled
     ELSE /\ ThrowFinal(lastError)
          /\ UNCHANGED <<retryAttempt, invocations>>
  /\ UNCHANGED <<context, opts, lastError, failures, onlyRetryable, delaysTaken>>
  /\ UNCHANGED <<monVars, thresholds, obsVars, zipVars, handlerVars, csvVars, clientVars, stemVars>>

\* fn resolves before the timer: return result
AttemptSucceeds ==
  /\ retryPc = "running"
  /\ retryPc' = "returned"
  /\ settled' = [kind |-> "value", value |-> OpValue]
  /\ UNCHANGED <<context, opts, retryAttempt, lastError, invocations, failures,
                 onlyRetryable, delaysTaken>>
  /\ UNCHANGED <<monVars, thresholds, obsVars, zipVars, handlerVars, csvVars, clientVars, stemVars>>

\* fn rejects before the timer
AttemptFails ==
  /\ retryPc = "running"
  /\ \E error \in ErrorsThrown : Catch(error)

\* the timer of withTimeout fires first
AttemptTimesOut ==
  /\ retryPc = "running"
  /\ Catch(TimedOut(opts.timeoutMs))

\* await RetryHandler.delay(delayMs) is over
DelayEnds ==
  /\ retryPc = "delay"
  /\ retryPc' = "loop"
  /\ UNCHANGED <<context, opts, retryAttempt, lastError, settled, invocations,
                 failures, onlyRetryable, delaysTaken>>
  /\ UNCHANGED <<monVars, thresholds, obsVars, zipVars, handlerVars, csvVars, clientVars, stemVars>>

\* ------------------------------------------------------------------ handler

\* what a record refers to: a .zip key, a key of another kind, or a record
\* that validateS3Event refuses
RecordKinds == {"zip", "other", "invalid"}

\* event.Records
Events == UNION { [1..n -> RecordKinds] : n \in 0..MaxRecords }

\* context.getRemainingTimeInMillis() when the handler starts, and the time
\* one record takes
InvocationTimes == {50000, 90000}
RecordDurations == {5000, 20000, 40000}

InvalidRecord == "Failed to process record"

\* what processZipFile can return to processS3Record
ZipResults ==
  { [success |-> TRUE,  filesProcessed |-> 2, errors |-> <<>>],
    [success |-> TRUE,  filesProcessed |-> 1, errors |-> <<EntryError>>],
    [success |-> FALSE, filesProcessed |-> 1, errors |-> <<SizeLimit>>],
    FailedResult(SizeValidation) }

\* the record is not validated before its key is looked at
ReachesZipProcessorUnvalidated(kind) == kind # "other"

\* processS3Record: the record passes validateS3Event and its key ends in
\* .zip, so that processZipFile is called
ReachesZipProcessor(kind) == kind = "zip"

\* the key's extension is not looked at
RecordResultsNoSkip(kind) ==
  IF kind = "invalid" THEN {FailedResult(InvalidRecord)}
  ELSE ZipResults

\* processS3Record and the catch of the loop body: the results a record of
\* this kind can push
RecordResults(kind) ==
  IF kind = "invalid" THEN {FailedResult(InvalidRecord)}
  ELSE IF kind = "other" THEN {EmptyResult}
  ELSE ZipResults

\* the loop stops only when the time is used up
LowOnTimeAtZero(remaining) == remaining <= 0

\* handler: remainingTime < 30000
LowOnTime(remaining) == remaining < 30000

\* the handler is invoked: the start checkpoint
Invoke ==
  /\ hPc = "idle"
  /\ \E event \in Events, time \in InvocationTimes, u \in UsageLevels :
       /\ records' = event
       /\ remainingTime' = time
       /\ checkMemoryUsage(u)
       /\ hPc' = IF checkMemoryUsageReturns(u) THEN "loop" ELSE "failed"
  /\ i' = 0
  /\ results' = <<>>
  /\ overallSuccess' = TRUE
  /\ started' = <<>>
  /\ zipCalls' = 0
  /\ UNCHANGED <<now, thresholds, obsVars, zipVars, retryVars, csvVars, clientVars, stemVars>>

\* for (let i = 0; i < event.Records.length; i++): processS3Record is called
StartRecord ==
  /\ hPc = "loop"
  /\ i < Len(records)
  /\ hPc' = "record"
  /\ started' = Append(started, i + 1)
  /\ UNCHANGED <<records, i, results, overallSuccess, remainingTime, zipCalls>>
  /\ UNCHANGED <<monVars, thresholds, obsVars, zipVars, retryVars, csvVars, clientVars, stemVars>>

\* processS3Record settles: the result is pushed, then the remaining time is
\* read
RecordCompletes ==
  /\ hPc = "record"
  /\ \E res \in RecordResults(records[i + 1]), d \in RecordDurations :
       /\ d <= remainingTime
       /\ results' = Append(results, res)
       /\ overallSuccess' = (overallSuccess /\ res.success)
       /\ remainingTime' = remainingTime - d
       /\ IF LowOnTime(remainingTime - d)
          THEN hPc' = "epilogue" /\ i' = i
          ELSE hPc' = "loop" /\ i' = i + 1
  /\ zipCalls' = IF ReachesZipProcessor(records[i + 1]) THEN zipCalls + 1 ELSE zipCalls
  /\ UNCHANGED <<records, started>>
  /\ UNCHANGED <<monVars, thresholds, obsVars, zipVars, retryVars, csvVars, clientVars, stemVars>>

\* after the loop: the handler returns, or throws when a result failed
Finish ==
  /\ \/ hPc = "loop" /\ ~(i < Len(records))
     \/ hPc = "epilogue"
  /\ hPc' = IF overallSuccess THEN "done" ELSE "failed"
  /\ UNCHANGED <<records, i, results, overallSuccess, remainingTime, started, zipCalls>>
  /\ UNCHANGED <<monVars, thresholds, obsVars, zipVars, retryVars, csvVars, clientVars, stemVars>>

\* ------------------------------------------------------------- CSVProcessor

\* this.options.timestampColumn and the value of getCurrentTimestamp()
timestampColumn == "_processed"
timestamp == "2026-01-01T00:00:00.000Z"

\* rows the parser can emit (trim: true, ignoreEmpty: true): header-like rows
\* of three, two and one cell, data rows of three, two and one cell
ParsedRows ==
  { <<"name", "age", "city">>,
    <<"name", "age">>,
    <<"_processed">>,
    <<"John", "25", "New York">>,
    <<"Jane", "30">>,
    <<"25">>,
    <<"2023-01-01", "">> }

Letters ==
  { "a", "b", "c", "d", "e", "f", "g", "h", "i", "j", "k", "l", "m", "n", "o", "p",
    "q", "r", "s", "t", "u", "v", "w", "x", "y", "z", "A", "B", "C", "D", "E", "F",
    "G", "H", "I", "J", "K", "L", "M", "N", "O", "P", "Q", "R", "S", "T", "U", "V",
    "W", "X", "Y", "Z" }
Digits == {"0", "1", "2", "3", "4", "5", "6", "7", "8", "9"}

\* detectHeaders: the test of one non-empty value. A value that matches
\* /^[a-zA-Z][a-zA-Z0-9_\s-]*$/ or is a common header word contains a letter
\* and is no number, date, e-mail or URL; of the common header words only
\* _processed does not match the first pattern
LikelyHeader(strValue) ==
  LET hasTypicalHeaderChars ==
        /\ Len(strValue) >= 1
        /\ SubSeq(strValue, 1, 1) \in Letters
        /\ \A k \in 2..Len(strValue) :
             SubSeq(strValue, k, k) \in Letters \cup Digits \cup {"_", " ", "-"}
      commonHeaderWords == strValue \in {"_processed", "_PROCESSED", "_Processed"}
  IN  Len(strValue) < 50 /\ (hasTypicalHeaderChars \/ commonHeaderWords)

\* detectHeaders
detectHeaders(firstRow) ==
  /\ Len(firstRow) # 0
  /\ \E k \in 1..Len(firstRow) : firstRow[k] # ""
  /\ \A k \in 1..Len(firstRow) : firstRow[k] # "" => LikelyHeader(firstRow[k])

Pending == [kind |-> "pending", rows |-> <<>>]
NullResult == [kind |-> "null", rows |-> <<>>]
RejectedCsv == [kind |-> "error", rows |-> <<>>]

\* the 'end' handler: for a file with headers, a data row one cell shorter
\* than the header row gets the timestamp pushed
EnsureConsistency(rs, headers) ==
  IF headers /\ Len(rs) > 1
  THEN [ k \in 1..Len(rs) |->
           IF k >= 2 /\ Len(rs[k]) = Len(rs[1]) - 1
           THEN Append(rs[k], timestamp)
           ELSE rs[k] ]
  ELSE rs

\* an empty file is an error unless malformed files are skipped
OnEndStrict(rs, headers, skip) ==
  IF Len(rs) = 0
  THEN IF skip THEN NullResult ELSE RejectedCsv
  ELSE [kind |-> "buffer", rows |-> EnsureConsistency(rs, headers)]

\* the 'end' handler: what the promise is settled with; rows stands for the
\* argument of convertRowsToCSV
OnEnd(rs, headers, skip) ==
  IF Len(rs) = 0
  THEN NullResult
  ELSE [kind |-> "buffer", rows |-> EnsureConsistency(rs, headers)]

\* the rows collected so far are returned
OnErrorPartial(rs, skip) ==
  IF skip THEN [kind |-> "buffer", rows |-> rs] ELSE RejectedCsv

\* the 'error' handler: what the promise is settled with
OnError(rs, skip) == IF skip THEN NullResult ELSE RejectedCsv

\* processCSVStream is called
ProcessCSVStream ==
  /\ csvPc = "idle"
  /\ csvPc' = "parsing"
  /\ skipMalformed' \in BOOLEAN
  /\ UNCHANGED <<rows, hasHeaders, rowCount, csvResult, parsed, parseFailed>>
  /\ UNCHANGED <<monVars, thresholds, obsVars, zipVars, retryVars, handlerVars, clientVars, stemVars>>

\* parseStream.on('data')
DataRow ==
  /\ csvPc = "parsing"
  /\ Len(parsed) < MaxRows
  /\ \E row \in ParsedRows :
       /\ parsed' = Append(parsed, row)
       /\ rowCount' = rowCount + 1
       /\ IF rowCount + 1 = 1
          THEN /\ hasHeaders' = detectHeaders(row)
               /\ rows' = Append(rows, Append(row, IF detectHeaders(row)
                                                   THEN timestampColumn
                                                   ELSE timestamp))
          ELSE /\ rows' = Append(rows, Append(row, timestamp))
               /\ UNCHANGED hasHeaders
  /\ UNCHANGED <<csvPc, skipMalformed, csvResult, parseFailed>>
  /\ UNCHANGED <<monVars, thresholds, obsVars, zipVars, retryVars, handlerVars, clientVars, stemVars>>

\* parseStream.on('end')
StreamEnd ==
  /\ csvPc = "parsing"
  /\ csvPc' = "settled"
  /\ csvResult' = OnEnd(rows, hasHeaders, skipMalformed)
  /\ UNCHANGED <<skipMalformed, rows, hasHeaders, rowCount, parsed, parseFailed>>
  /\ UNCHANGED <<monVars, thresholds, obsVars, zipVars, retryVars, handlerVars, clientVars, stemVars>>

\* parseStream.on('error')
ParseError ==
  /\ csvPc = "parsing"
  /\ csvPc' = "settled"
  /\ parseFailed' = TRUE
  /\ csvResult' = OnError(rows, skipMalformed)
  /\ UNCHANGED <<skipMalformed, rows, hasHeaders, rowCount, parsed>>
  /\ UNCHANGED <<monVars, thresholds, obsVars, zipVars, retryVars, handlerVars, clientVars, stemVars>>

\* -------------------------------------------------------- s3-client-singleton

\* s3ClientInstance = null; an instance is the number of its construction
NoClient == 0

\* getS3Client constructs on every call
getS3ClientConstructsAlways(instance) == TRUE

\* getS3Client: if (!s3ClientInstance)
getS3ClientConstructs(instance) == instance = NoClient

\* getS3Client: the instance held, and returned, after the call
getS3Client(instance, made) ==
  IF getS3ClientConstructs(instance) THEN made + 1 ELSE instance

\* getS3ClientInfo().isInitialized
isInitialized(instance) == instance # NoClient

\* one call as the caller sees it
ClientCall(op, instance, info) == [op |-> op, instance |-> instance, isInitialized |-> info]

\* getS3Client()
GetS3Client ==
  /\ Len(clientCalls) < MaxClientCalls
  /\ s3ClientInstance' = getS3Client(s3ClientInstance, clientsMade)
  /\ clientsMade' = IF getS3ClientConstructs(s3ClientInstance)
                    THEN clientsMade + 1
                    ELSE clientsMade
  /\ clientInitializedAt' = IF getS3ClientConstructs(s3ClientInstance)
                            THEN Len(clientCalls) + 1
                            ELSE clientInitializedAt
  /\ clientCalls' = Append(clientCalls,
                           ClientCall("getS3Client",
                                      getS3Client(s3ClientInstance, clientsMade), FALSE))
  /\ UNCHANGED <<monVars, thresholds, obsVars, zipVars, retryVars, handlerVars, csvVars, stemVars>>

\* getS3ClientInfo()
GetS3ClientInfo ==
  /\ Len(clientCalls) < MaxClientCalls
  /\ clientCalls' = Append(clientCalls,
                           ClientCall("getS3ClientInfo", NoClient,
                                      isInitialized(s3ClientInstance)))
  /\ UNCHANGED <<s3ClientInstance, clientInitializedAt, clientsMade>>
  /\ UNCHANGED <<monVars, thresholds, obsVars, zipVars, retryVars, handlerVars, csvVars, stemVars>>

\* recreateS3Client(): the references are cleared, then getS3Client()
RecreateS3Client ==
  /\ Len(clientCalls) < MaxClientCalls
  /\ s3ClientInstance' = getS3Client(NoClient, clientsMade)
  /\ clientsMade' = clientsMade + 1
  /\ clientInitializedAt' = Len(clientCalls) + 1
  /\ clientCalls' = Append(clientCalls,
                           ClientCall("recreateS3Client",
                                      getS3Client(NoClient, clientsMade), FALSE))
  /\ UNCHANGED <<monVars, thresholds, obsVars, zipVars, retryVars, handlerVars, csvVars, stemVars>>

\* destroyS3Client()
DestroyS3Client ==
  /\ Len(clientCalls) < MaxClientCalls
  /\ s3ClientInstance' = NoClient
  /\ clientInitializedAt' = 0
  /\ clientCalls' = Append(clientCalls, ClientCall("destroyS3Client", NoClient, FALSE))
  /\ UNCHANGED clientsMade
  /\ UNCHANGED <<monVars, thresholds, obsVars, zipVars, retryVars, handlerVars, csvVars, stemVars>>

\* --------------------------------------------------- filename stem extraction

\* the pieces filenames are put together from
NameTokens == {"a", "v1.0", "2026-01-01", "_", ".", "/", " ", "\t", ":"}

CharAt(str, k) == SubSeq(str, k, k)
From(str, k) == SubSeq(str, k, Len(str))

\* /[\x00-\x1f\x7f-\x9f]/ and /\s/ on the characters of NameTokens, and
\* /[<>:"|?*]/
ControlChars == {"\t", "\n", "\r"}
Whitespace == {" ", "\t", "\n", "\r"}
ReservedChars == {"<", ">", ":", "\"", "|", "?", "*"}

\* replace(/[set]/g, by)
RECURSIVE replaceChars(_, _, _)
replaceChars(str, set, by) ==
  IF Len(str) = 0
  THEN ""
  ELSE (IF CharAt(str, 1) \in set THEN by ELSE CharAt(str, 1))
         \o replaceChars(From(str, 2), set, by)

\* replace(/\.\./g, '_')
RECURSIVE replaceDotDot(_)
replaceDotDot(str) ==
  IF Len(str) < 2
  THEN str
  ELSE IF SubSeq(str, 1, 2) = ".."
       THEN "_" \o replaceDotDot(From(str, 3))
       ELSE CharAt(str, 1) \o replaceDotDot(From(str, 2))

\* replace(/^[set]+/, '')
RECURSIVE stripLeading(_, _)
stripLeading(str, set) ==
  IF Len(str) > 0 /\ CharAt(str, 1) \in set THEN stripLeading(From(str, 2), set) ELSE str

\* replace(/[set]+$/, '')
RECURSIVE stripTrailing(_, _)
stripTrailing(str, set) ==
  IF Len(str) > 0 /\ CharAt(str, Len(str)) \in set
  THEN stripTrailing(SubSeq(str, 1, Len(str) - 1), set)
  ELSE str

\* String.prototype.trim
trim(str) == stripTrailing(stripLeading(str, Whitespace), Whitespace)

\* replace(/\s+/g, '_')
RECURSIVE replaceWhitespaceRuns(_)
replaceWhitespaceRuns(str) ==
  IF Len(str) = 0
  THEN ""
  ELSE IF CharAt(str, 1) \in Whitespace
       THEN "_" \o replaceWhitespaceRuns(stripLeading(str, Whitespace))
       ELSE CharAt(str, 1) \o replaceWhitespaceRuns(From(str, 2))

\* replace(/_{4,}/g, '___')
RECURSIVE capUnderscoreRuns(_)
capUnderscoreRuns(str) ==
  IF Len(str) = 0
  THEN ""
  ELSE IF Len(str) >= 4 /\ SubSeq(str, 1, 4) = "____"
       THEN "___" \o capUnderscoreRuns(stripLeading(str, {"_"}))
       ELSE CharAt(str, 1) \o capUnderscoreRuns(From(str, 2))

\* sanitizeFilename: the longest name returned
MaxSanitizedLength == 100

\* sanitizeFilename
sanitizeFilename(filename) ==
  IF Len(filename) = 0 \/ Len(trim(filename)) = 0
  THEN "unknown"
  ELSE LET noControl == replaceChars(filename, ControlChars, "_")
           noReserved == replaceChars(noControl, ReservedChars, "_")
           noTraversal == replaceDotDot(noReserved)
           noLeadingDots == stripLeading(noTraversal, {"."})
           noWhitespace == replaceWhitespaceRuns(noLeadingDots)
           capped == capUnderscoreRuns(noWhitespace)
           stripped == stripTrailing(stripLeading(capped, {"_"}), {"_"})
           meaningful == IF stripped = "" \/ stripped = "." THEN "unknown" ELSE stripped
       IN  IF Len(meaningful) > MaxSanitizedLength
           THEN SubSeq(meaningful, 1, MaxSanitizedLength)
           ELSE meaningful

\* isValidS3PathComponent
isValidS3PathComponent(component) ==
  /\ Len(component) # 0
  /\ Len(trim(component)) # 0
  /\ \A k \in 1..Len(component) : CharAt(component, k) \notin ControlChars
  /\ ~Includes(component, "..")
  /\ \E k \in 1..Len(component) : CharAt(component, k) # "."
  /\ CharAt(component, 1) # "/"
  /\ ~Includes(component, "//")
  /\ \A k \in 1..Len(component) : CharAt(component, k) \notin ReservedChars

\* String.prototype.split with a one-character separator
RECURSIVE split(_, _)
split(str, sep) ==
  IF \E k \in 1..Len(str) : CharAt(str, k) = sep
  THEN LET at == CHOOSE k \in 1..Len(str) :
                   /\ CharAt(str, k) = sep
                   /\ \A j \in 1..(k - 1) : CharAt(str, j) # sep
       IN  <<SubSeq(str, 1, at - 1)>> \o split(From(str, at + 1), sep)
  ELSE <<str>>

\* Array.prototype.join
RECURSIVE join(_, _)
join(parts, sep) ==
  IF Len(parts) = 0
  THEN ""
  ELSE IF Len(parts) = 1
       THEN parts[1]
       ELSE parts[1] \o sep \o join(Tail(parts), sep)

\* String.prototype.lastIndexOf with a one-character pattern, counted from 0
lastIndexOf(str, c) ==
  IF \E k \in 1..Len(str) : CharAt(str, k) = c
  THEN (CHOOSE k \in 1..Len(str) :
          /\ CharAt(str, k) = c
          /\ \A j \in (k + 1)..Len(str) : CharAt(str, j) # c) - 1
  ELSE -1

\* parseFilename: /^\d{4}-\d{2}-\d{2}$/
datePattern(part) ==
  /\ Len(part) = 10
  /\ \A k \in {1, 2, 3, 4, 6, 7, 9, 10} : CharAt(part, k) \in Digits
  /\ CharAt(part, 5) = "-"
  /\ CharAt(part, 8) = "-"

\* extractStemFromParts: the parts from the first substantial one on
StemParts(validParts) ==
  LET starts == {k \in 1..Len(validParts) : Len(validParts[k]) > 0 /\ validParts[k] # "_"}
  IN  IF starts = {}
      THEN validParts
      ELSE SubSeq(validParts, CHOOSE k \in starts : \A j \in starts : k <= j, Len(validParts))

\* extractStemFromParts
extractStemFromParts(parts) ==
  IF Len(parts) = 0
  THEN "unknown"
  ELSE LET kept == SelectSeq(parts, LAMBDA part : Len(part) # 0 /\ Len(trim(part)) > 0)
           sanitized == [k \in 1..Len(kept) |-> sanitizeFilename(kept[k])]
           validParts == SelectSeq(sanitized,
                                   LAMBDA part : /\ Len(part) # 0
                                                 /\ part # "unknown"
                                                 /\ isValidS3PathComponent(part))
       IN  IF Len(validParts) = 0
           THEN "unknown"
           ELSE LET finalStemName == sanitizeFilename(join(StemParts(validParts), "_"))
                IN  IF Len(finalStemName) # 0 /\ isValidS3PathComponent(finalStemName)
                    THEN finalStemName
                    ELSE "unknown"

\* parseFilename: a part that is no date is sanitized unless it is empty
parseFilename(filename) ==
  LET segments == split(filename, "/")
      justFilename == IF segments[Len(segments)] = ""
                      THEN filename
                      ELSE segments[Len(segments)]
      sanitizedFilename == sanitizeFilename(justFilename)
      lastDotIndex == lastIndexOf(sanitizedFilename, ".")
      baseName == IF lastDotIndex > 0
                  THEN SubSeq(sanitizedFilename, 1, lastDotIndex)
                  ELSE sanitizedFilename
      extension == IF lastDotIndex > 0 THEN From(sanitizedFilename, lastDotIndex + 1) ELSE ""
      parts == split(baseName, "_")
      others == SelectSeq(parts, LAMBDA part : ~datePattern(part))
      nonDateParts == [k \in 1..Len(others) |->
                         IF others[k] = "" THEN "" ELSE sanitizeFilename(others[k])]
  IN  [ baseName |-> sanitizeFilename(baseName),
        extension |-> extension,
        dateParts |-> SelectSeq(parts, datePattern),
        nonDateParts |-> nonDateParts,
        stemName |-> extractStemFromParts(nonDateParts) ]

\* extractStemName
extractStemName(filename) ==
  IF Len(filename) = 0 \/ trim(filename) = ""
  THEN "unknown"
  ELSE IF trim(filename) = "."
       THEN "unknown"
       ELSE parseFilename(filename).stemName

\* config.outputPath, by default
outputPath == "output/"

\* ZipProcessor.sanitizeFilename: path.basename, then the dangerous characters
\* become '_'; the cut at 255 characters is beyond the names composed here
zipSanitizeFilename(fileName) ==
  IF Len(fileName) = 0
  THEN "unnamed_file"
  ELSE LET segments == split(stripTrailing(fileName, {"/"}), "/")
           sanitized == replaceChars(segments[Len(segments)],
                                     ReservedChars \cup ControlChars \cup {"/", "\\"}, "_")
       IN  IF Len(sanitized) = 0 \/ Len(trim(sanitized)) = 0
           THEN "unnamed_file"
           ELSE sanitized

\* processZipEntry: the key an entry is published under
outputKey(fileName) ==
  outputPath \o parseFilename(fileName).stemName \o "/" \o zipSanitizeFilename(fileName)

\* a filename is put together, token by token
ComposeName ==
  /\ stemPc = "idle"
  /\ nameTokens < MaxNameTokens
  /\ \E token \in NameTokens : nameGiven' = nameGiven \o token
  /\ nameTokens' = nameTokens + 1
  /\ UNCHANGED <<stemPc, stemName, stemOfStem>>
  /\ UNCHANGED <<monVars, thresholds, obsVars, zipVars, retryVars, handlerVars, csvVars, clientVars>>

\* extractStemName(filename)
ExtractStemName ==
  /\ stemPc = "idle"
  /\ stemPc' = "extracted"
  /\ stemName' = extractStemName(nameGiven)
  /\ UNCHANGED <<nameGiven, nameTokens, stemOfStem>>
  /\ UNCHANGED <<monVars, thresholds, obsVars, zipVars, retryVars, handlerVars, csvVars, clientVars>>

\* extractStemName applied to the stem it returned
ExtractStemOfStem ==
  /\ stemPc = "extracted"
  /\ stemPc' = "again"
  /\ stemOfStem' = extractStemName(stemName)
  /\ UNCHANGED <<nameGiven, nameTokens, stemName>>
  /\ UNCHANGED <<monVars, thresholds, obsVars, zipVars, retryVars, handlerVars, csvVars, clientVars>>

\* ------------------------------------------------------------ specifications

Init ==
  /\ circuitBreakerTripped = FALSE
  /\ lastCheckTime = 0
  /\ thresholds = [ warningThreshold |-> warningThreshold,
                    circuitBreakerThreshold |-> circuitBreakerThreshold ]
  /\ now = StartNow
  /\ lastCall = NoCall
  /\ callBit = FALSE
  /\ mustRefuse = FALSE
  /\ pc = "idle"
  /\ archiveNo = 0
  /\ zipSize = 0
  /\ result = EmptyResult
  /\ totalUncompressedSize = 0
  /\ delivered = 0
  /\ entry = NoEntry
  /\ route = "none"
  /\ attempt = 0
  /\ admitted = 0
  /\ opens = 0
  /\ puts = 0
  /\ runTripped = FALSE
  /\ loopEnd = "none"
  /\ strayStream = FALSE
  /\ abandoned = FALSE
  /\ latePut = FALSE
  /\ retryPc = "idle"
  /\ context = [operation |-> ""]
  /\ opts = DEFAULT_OPTIONS
  /\ retryAttempt = 0
  /\ lastError = NoError
  /\ settled = Unsettled
  /\ invocations = 0
  /\ failures = 0
  /\ onlyRetryable = TRUE
  /\ delaysTaken = <<>>
  /\ hPc = "idle"
  /\ records = <<>>
  /\ i = 0
  /\ results = <<>>
  /\ overallSuccess = TRUE
  /\ remainingTime = 0
  /\ started = <<>>
  /\ zipCalls = 0
  /\ csvPc = "idle"
  /\ skipMalformed = TRUE
  /\ rows = <<>>
  /\ hasHeaders = FALSE
  /\ rowCount = 0
  /\ csvResult = Pending
  /\ parsed = <<>>
  /\ parseFailed = FALSE
  /\ s3ClientInstance = NoClient
  /\ clientInitializedAt = 0
  /\ clientsMade = 0
  /\ clientCalls = <<>>
  /\ stemPc = "idle"
  /\ nameGiven = ""
  /\ nameTokens = 0
  /\ stemName = ""
  /\ stemOfStem = ""

MonitorNext == Tick \/ Checkpoint \/ Reset \/ GarbageCollect \/ UpdateThresholds

MonitorSpec == Init /\ [][MonitorNext]_vars

Next ==
  \/ Tick
  \/ StartProcessZipFile
  \/ ValidateFileSize
  \/ DownloadStart
  \/ DownloadSend
  \/ DownloadBuffer
  \/ DownloadDelay
  \/ OpenArchive
  \/ EntryEvent
  \/ ReaderEnd
  \/ ReaderError
  \/ OpenStream
  \/ UploadStart
  \/ UploadBuffer
  \/ UploadCheck
  \/ UploadPut
  \/ UploadDelay
  \/ CsvOpen
  \/ CsvTransform
  \/ CsvUploadBuffer
  \/ CsvPut
  \/ UploadTimesOut
  \/ AbandonedSettles

Spec == Init /\ [][Next]_vars

\* every storage call and stream read that is pending completes or fails,
\* and every callback that is due runs
FairSpec ==
  /\ Spec
  /\ WF_vars(ValidateFileSize \/ DownloadStart \/ DownloadSend \/ DownloadBuffer
               \/ DownloadDelay \/ OpenArchive \/ EntryEvent \/ ReaderEnd \/ ReaderError
               \/ OpenStream \/ UploadStart \/ UploadBuffer \/ UploadCheck \/ UploadPut
               \/ UploadDelay \/ CsvOpen \/ CsvTransform \/ CsvUploadBuffer \/ CsvPut)

RetryNext ==
  \/ WithRetry
  \/ AttemptBegins
  \/ AttemptSucceeds
  \/ AttemptFails
  \/ AttemptTimesOut
  \/ DelayEnds

RetrySpec == Init /\ [][RetryNext]_vars

HandlerNext ==
  \/ Invoke
  \/ StartRecord
  \/ RecordCompletes
  \/ Finish

HandlerSpec == Init /\ [][HandlerNext]_vars

CsvNext ==
  \/ ProcessCSVStream
  \/ DataRow
  \/ StreamEnd
  \/ ParseError

CsvSpec == Init /\ [][CsvNext]_vars

ClientNext ==
  \/ GetS3Client
  \/ GetS3ClientInfo
  \/ RecreateS3Client
  \/ DestroyS3Client

ClientSpec == Init /\ [][ClientNext]_vars

StemNext ==
  \/ ComposeName
  \/ ExtractStemName
  \/ ExtractStemOfStem

StemSpec == Init /\ [][StemNext]_vars

\* ------------------------------------------------------------------ claims

Last(s) == s[Len(s)]
LastError == IF Len(result.errors) = 0 THEN "" ELSE Last(result.errors)
SameArchive == archiveNo' = archiveNo
PublishPcs == {"open", "up_start", "up_buffer", "up_check", "up_put", "up_delay",
               "csv_open", "csv_transform", "csv_upload", "csv_put"}

\* C1: during one archive the running total of uncompressed sizes never
\* decreases and never exceeds the 200 MiB ceiling; an entry that would push
\* it over the ceiling is not added, is not admitted and ends the archive with
\* success = false.
C1_TotalIsHardCeiling ==
  /\ [](totalUncompressedSize <= maxUncompressedSize)
  /\ [][SameArchive => totalUncompressedSize' >= totalUncompressedSize]_vars
  /\ [][(SameArchive /\ delivered' = delivered + 1
          /\ totalUncompressedSize + entry'.uncompressedSize > 200 * 1024 * 1024)
        => /\ totalUncompressedSize' = totalUncompressedSize
           /\ admitted' = admitted
           /\ pc' = "returned"
           /\ result'.success = FALSE]_vars

\* C1 witness: the total stands exactly at the ceiling and the next entry was
\* rejected for size
C1_Witness ==
  /\ pc = "returned"
  /\ LastError = SizeLimit
  /\ totalUncompressedSize = maxUncompressedSize

\* the latest entry has uncompressedSize / max(compressedSize, 1) above 100
RatioOver100 ==
  /\ entry # NoEntry
  /\ entry.uncompressedSize >
       100 * (IF entry.compressedSize > 1 THEN entry.compressedSize ELSE 1)

\* C2: an entry whose uncompressedSize / max(compressedSize, 1) exceeds 100
\* ends the archive at once: no read stream is opened for it, nothing more is
\* put or read, and the result has success = false.
C2_RatioAbortsBeforeRead ==
  /\ [](RatioOver100 => /\ pc = "returned"
                        /\ loopEnd = "abort"
                        /\ opens = 0
                        /\ result.success = FALSE)
  /\ [][(RatioOver100 /\ SameArchive) => /\ puts' = puts
                                         /\ opens' = opens
                                         /\ delivered' = delivered]_vars

\* C2 witness: an entry with compressedSize 0 was rejected for its ratio after
\* an earlier entry had been published
C2_Witness ==
  /\ LastError = SuspiciousRatio
  /\ entry.compressedSize = 0
  /\ puts >= 1

\* C3: a rejection by the entry-count, ratio or cumulative-size limit appends
\* exactly one error, ends the entry loop (no further entry is read) and
\* leaves success = false whatever was processed before.
C3_LimitRejectionIsFailFast ==
  /\ [][(SameArchive /\ result'.errors # result.errors
          /\ Last(result'.errors) \in LimitErrors)
        => /\ result'.errors = Append(result.errors, Last(result'.errors))
           /\ result'.filesProcessed = result.filesProcessed
           /\ result'.success = FALSE
           /\ pc' = "returned"]_vars
  /\ [](LastError \in LimitErrors => /\ pc = "returned"
                                    /\ loopEnd = "abort"
                                    /\ result.success = FALSE)
  /\ [][(LastError \in LimitErrors /\ SameArchive) => delivered' = delivered]_vars

\* C3 witness: the entry-count limit rejected an archive after entries had
\* been processed
C3_Witness ==
  /\ LastError = TooManyFiles
  /\ result.filesProcessed = maxFileCount
  /\ delivered = maxFileCount + 1

\* C4 (as stated): the number of entries admitted past the resource guard
\* never exceeds maxFileCount.
C4_AdmittedWithinCount == admitted <= maxFileCount

\* C5 (as stated): filesProcessed counts only entries that were actually
\* published.
C5_CountsOnlyPublished == result.filesProcessed <= puts

\* C6: a failure while publishing an entry appends exactly one error, changes
\* neither success nor filesProcessed and asks the reader for the next entry;
\* publishing an entry ends either that way or with filesProcessed grown by
\* one.
C6_EntryFailureIsIsolated ==
  [][(pc \in PublishPcs /\ pc' \notin PublishPcs)
     => /\ pc' = "reading"
        /\ loopEnd' = "none"
        /\ result'.success = result.success
        /\ \/ /\ result'.errors = Append(result.errors, EntryError)
              /\ result'.filesProcessed = result.filesProcessed
              /\ puts' = puts
           \/ /\ result'.errors = result.errors
              /\ result'.filesProcessed = result.filesProcessed + 1]_vars

\* C6 witness: an entry is being published after two earlier entries of the
\* archive failed
C6_Witness ==
  /\ pc \in PublishPcs
  /\ Len(result.errors) = 2
  /\ LastError = EntryError

\* C7 (as stated): when a checkpoint of the run tripped the breaker, the
\* archive's result has success = false.
C7_TripFailsArchive == (pc = "returned" /\ runTripped) => result.success = FALSE

\* C8: for an archive read to its end, success is false exactly when
\* filesProcessed is 0 and at least one error was recorded.
C8_SuccessAtEnd ==
  (pc = "returned" /\ loopEnd = "end")
    => (result.success = FALSE <=>
          (result.filesProcessed = 0 /\ Len(result.errors) >= 1))

\* C8 witness: the archive was read to its end with an entry failed and
\* another processed, and no trip
C8_Witness ==
  /\ pc = "returned"
  /\ loopEnd = "end"
  /\ ~runTripped
  /\ result.filesProcessed >= 1
  /\ Len(result.errors) >= 1
  /\ result.success = TRUE

\* C9 (as stated): once a checkpoint has sampled usage at or above the trip
\* threshold, every later checkpoint returns false until resetCircuitBreaker
\* is invoked with usage below the warning threshold.
C9_StickyRefusal ==
  (mustRefuse /\ lastCall.op = "check") => lastCall.ret = FALSE

\* C10: resetCircuitBreaker clears the tripped flag if and only if the usage
\* it samples is below the warning threshold; otherwise the flag and the
\* last-check time are left as they were.
C10_ResetIffBelowWarning ==
  [][(callBit' # callBit /\ lastCall'.op = "reset") =>
       /\ lastCheckTime' = lastCheckTime
       /\ IF lastCall'.usage < thresholds.warningThreshold
          THEN circuitBreakerTripped' = FALSE
          ELSE circuitBreakerTripped' = circuitBreakerTripped]_vars

\* C10 witness: a reset was refused on a tripped breaker, usage being exactly
\* at the warning threshold
C10_Witness ==
  /\ lastCall.op = "reset"
  /\ lastCall.usage = thresholds.warningThreshold
  /\ circuitBreakerTripped

\* C11: a checkpoint called less than the check interval (1 s) after the last
\* sampling call takes no sample, leaves the tripped flag and the last-check
\* time as they were, and returns the negation of the tripped flag.
C11_ThrottledCheckpointIsFrame ==
  [][(callBit' # callBit /\ lastCall'.op = "check" /\ now - lastCheckTime < 1000) =>
       /\ lastCall'.sampled = FALSE
       /\ circuitBreakerTripped' = circuitBreakerTripped
       /\ lastCheckTime' = lastCheckTime
       /\ lastCall'.ret = ~circuitBreakerTripped]_vars

\* C11 witness: a checkpoint half an interval after the sample that tripped
\* the breaker took no sample and refused
C11_Witness ==
  /\ lastCall.op = "check"
  /\ lastCall.sampled = FALSE
  /\ lastCall.ret = FALSE
  /\ circuitBreakerTripped
  /\ now - lastCheckTime = 500

\* C12: with maxAttempts = N, an operation that fails k < N times with
\* retryable errors and then succeeds is invoked exactly k+1 times and
\* withRetry returns its value; an operation whose first failure is
\* non-retryable is invoked exactly once and no backoff delay is taken.
C12_RetryUntilSuccess ==
  /\ [][(failures' = failures + 1 /\ onlyRetryable' /\ failures' < opts.maxAttempts)
        => retryPc' = "delay"]_vars
  /\ [][(retryPc = "delay" \/ retryPc = "loop")
        => \/ retryPc' = "loop" /\ invocations' = invocations
           \/ retryPc' = "running" /\ invocations' = invocations + 1]_vars
  /\ [](retryPc = "returned" => /\ failures < opts.maxAttempts
                                /\ invocations = failures + 1
                                /\ Len(delaysTaken) = failures
                                /\ settled = [kind |-> "value", value |-> OpValue])
  /\ []((failures = 1 /\ ~onlyRetryable) => /\ retryPc = "thrown"
                                            /\ invocations = 1
                                            /\ delaysTaken = <<>>)

\* C12 witness: under maxAttempts = 3 the operation failed twice with
\* retryable errors and the third attempt returned its value
C12_Witness ==
  /\ retryPc = "returned"
  /\ opts.maxAttempts = 3
  /\ failures = 2
  /\ invocations = 3

\* C13: an operation that always fails with a retryable error is invoked
\* exactly maxAttempts times (4 under the storage policy, 2 under the CSV
\* policy), no delay follows the final attempt, and withRetry throws an error
\* whose message carries the operation name and the number of attempts made.
C13_ExhaustedAttempts ==
  (retryPc = "thrown" /\ onlyRetryable) =>
    /\ invocations = opts.maxAttempts
    /\ failures = invocations
    /\ Len(delaysTaken) = invocations - 1
    /\ context.operation \in {"s3_download", "s3_upload_stream"} => invocations = 4
    /\ context.operation = "csv_processing" => invocations = 2
    /\ settled.kind = "error"
    /\ Includes(settled.value, "Operation '" \o context.operation \o "'")
    /\ Includes(settled.value, "after " \o ToString(invocations) \o " attempts")

\* C13 witness: an upload under the storage policy gave up after four
\* retryable failures
C13_Witness ==
  /\ retryPc = "thrown"
  /\ onlyRetryable
  /\ context.operation = "s3_upload_stream"
  /\ failures = 4

\* C14 (as stated): an attempt that hits the per-attempt timeout counts as a
\* retryable failure: under the default and the storage policies, if attempts
\* remain, another attempt follows after a backoff delay.
C14_TimeoutIsRetried ==
  [][(retryPc = "running"
       /\ failures' = failures + 1
       /\ lastError' = TimedOut(opts.timeoutMs)
       /\ DEFAULT_RETRYABLE_ERRORS \subseteq opts.retryableErrors
       /\ retryAttempt < opts.maxAttempts)
     => /\ retryPc' = "delay"
        /\ Len(delaysTaken') = Len(delaysTaken) + 1]_vars

\* C15: the delay taken before the retry that follows the n-th failed attempt
\* (n from 0) lies between min(baseDelay * backoffMultiplier^n, maxDelay) and
\* that value plus 10%; it never exceeds maxDelay plus 10%, and the
\* jitter-free part is non-decreasing in n when backoffMultiplier >= 1.
C15_DelayWithinBounds ==
  /\ \A k \in 1..Len(delaysTaken) :
       /\ Min(opts.baseDelayMs * Pow(opts.backoffMultiplier, k - 1), opts.maxDelayMs)
            <= delaysTaken[k]
       /\ 10 * delaysTaken[k]
            <= 11 * Min(opts.baseDelayMs * Pow(opts.backoffMultiplier, k - 1), opts.maxDelayMs)
       /\ 10 * delaysTaken[k] <= 11 * opts.maxDelayMs
  /\ opts.backoffMultiplier >= 1 =>
       \A n \in 0..opts.maxAttempts :
         exponentialDelay(n, opts) <= exponentialDelay(n + 1, opts)

\* C15 witness: the third delay stands at the ceiling of the caller's options
\* with jitter added
C15_Witness ==
  /\ Len(delaysTaken) = 3
  /\ opts.maxDelayMs = 3000
  /\ delaysTaken[3] > opts.maxDelayMs

FallbackRoutes == {"fb_try", "fb_catch"}
UploadStreamPcs == {"up_start", "up_buffer", "up_check", "up_put", "up_delay"}

\* C16: for a CSV-eligible entry whose transform returns none or throws, the
\* orchestrator opens a second, fresh stream of the entry and publishes the
\* entry through it (the stream handed to the transformer is not reused); if
\* that upload succeeds the entry counts as processed and records no error.
C16_FallbackOpensFreshStream ==
  /\ [][(pc = "csv_transform" /\ route' \in FallbackRoutes) => pc' = "open"]_vars
  /\ [][(route \in FallbackRoutes /\ pc = "open" /\ pc' = "up_start")
        => opens' = opens + 1]_vars
  /\ []((route \in FallbackRoutes /\ pc \in UploadStreamPcs) => opens >= 2)
  /\ [][(route \in FallbackRoutes /\ puts' = puts + 1)
        => /\ pc' = "reading"
           /\ result'.filesProcessed = result.filesProcessed + 1
           /\ result'.errors = result.errors
           /\ result'.success = result.success]_vars

\* C16 witness: the transform returned none and the original is being put
\* through the second stream opened for the entry
C16_Witness ==
  /\ route = "fb_try"
  /\ pc = "up_put"
  /\ entry.csv
  /\ opens = 2

StorageCallPcs == {"dl_send", "up_put", "csv_put"}

\* C17 (as stated): every get and every put of the pipeline (archive download,
\* direct upload, fallback upload, upload of transformed CSV bytes) runs
\* inside an attempt of the retry executor under the storage policy, and is
\* entered from a circuit-breaker checkpoint.
C17_StorageCallsRetriedAndGated ==
  /\ [](pc \in StorageCallPcs => (attempt >= 1 /\ attempt <= 4))
  /\ [][(pc' \in StorageCallPcs /\ pc' # pc)
        => pc \in {"dl_start", "up_check", "csv_upload"}]_vars

\* C19: an archive whose size reported by head exceeds the 50 MiB ceiling is
\* never downloaded: processZipFile has returned success = false,
\* filesProcessed = 0 and exactly one error, and the call is at no get or put.
C19_OversizeNeverDownloaded ==
  zipSize > 50 * 1024 * 1024 =>
    /\ pc = "returned"
    /\ result.success = FALSE
    /\ result.filesProcessed = 0
    /\ Len(result.errors) = 1
    /\ pc \notin StorageCallPcs
    /\ puts = 0

\* C19 witness: the second archive of the process was answered one byte over
\* the ceiling and refused
C19_Witness ==
  /\ zipSize = maxSizeBytes + 1
  /\ archiveNo = 2
  /\ pc = "returned"
  /\ result = FailedResult(SizeValidation)

StorageOperations == {"s3_download", "s3_upload_stream"}

\* C18: when a circuit-breaker checkpoint refuses inside a storage operation,
\* the error is non-retryable: no further attempt and no backoff delay follow,
\* an operation refused at its first attempt is invoked exactly once, and the
\* failure is thrown to the caller.
C18_MemoryRefusalNotRetried ==
  /\ [][(failures' = failures + 1
          /\ lastError' \in MemoryErrors
          /\ context.operation \in StorageOperations)
        => /\ retryPc' = "thrown"
           /\ delaysTaken' = delaysTaken
           /\ settled'.kind = "error"
           /\ Includes(settled'.value, lastError'.message)]_vars
  /\ [][retryPc = "thrown" => invocations' = invocations]_vars
  /\ []((failures = 1
          /\ lastError \in MemoryErrors
          /\ context.operation \in StorageOperations)
        => /\ retryPc = "thrown"
           /\ invocations = 1
           /\ delaysTaken = <<>>)

\* C18 witness: an upload whose start checkpoint refused at the first attempt
\* has thrown
C18_Witness ==
  /\ retryPc = "thrown"
  /\ context.operation = "s3_upload_stream"
  /\ lastError.message = "Cannot start S3 upload - memory usage too high"
  /\ invocations = 1

\* C20: the archive references of one invocation are processed in order and
\* one at a time; after an archive completes with less than the 30 s safety
\* margin remaining, no further archive is started and the results of the
\* archives already completed are kept.
C20_SequentialWithTimeMargin ==
  /\ [][started' # started
        => /\ started' = Append(started, Len(started) + 1)
           /\ Len(results) = Len(started)
           /\ results' = results]_vars
  /\ [][(hPc # "idle" /\ results' # results)
        => /\ Len(results') = Len(results) + 1
           /\ SubSeq(results', 1, Len(results)) = results
           /\ Len(results') = Len(started)]_vars
  /\ [][(Len(results') = Len(results) + 1 /\ remainingTime' < 30000)
        => hPc' = "epilogue"]_vars
  /\ [][(hPc \in {"epilogue", "done", "failed"})
        => /\ started' = started
           /\ results' = results]_vars

\* C20 witness: the second of three records completed with 25 s left; the
\* third was not started and both results are held
C20_Witness ==
  /\ hPc \in {"done", "failed"}
  /\ Len(records) = 3
  /\ started = <<1, 2>>
  /\ Len(results) = 2
  /\ remainingTime = 25000

\* C21 (as stated): the invocation raises only when no archive of the batch
\* succeeded; when at least one archive succeeded the handler completes
\* without raising.
C21_RaisesOnlyWhenNoneSucceeded ==
  hPc = "failed" => \A k \in 1..Len(results) : results[k].success = FALSE

\* C23: processZipFile never raises: when the start checkpoint, head, the
\* download or the opening of the archive fails, it returns success = false,
\* filesProcessed = 0 and exactly one error, and nothing was published.
C23_EarlyFailureIsReturned ==
  (pc = "returned" /\ loopEnd = "none") =>
    /\ result.success = FALSE
    /\ result.filesProcessed = 0
    /\ Len(result.errors) = 1
    /\ delivered = 0
    /\ puts = 0

\* C23 witness: head accepted the archive and the download failed
C23_Witness ==
  /\ pc = "returned"
  /\ loopEnd = "none"
  /\ zipSize = MiB
  /\ result = [success |-> FALSE, filesProcessed |-> 0, errors |-> <<ZipError>>]

\* every record of the event has a key that does not end in .zip (also true
\* of the empty event)
OnlyOtherRecords == \A k \in 1..Len(records) : records[k] = "other"

\* C29 (as stated): a record whose key does not end in .zip yields success =
\* true, filesProcessed = 0 and no errors without any call of the archive
\* processor, and the handler completes without raising when all records are
\* of this kind or the batch is empty.
C29_NonZipSkipped_AsStated ==
  /\ [][(Len(results') = Len(results) + 1 /\ records[Len(results')] = "other")
        => /\ results'[Len(results')] = [success |-> TRUE, filesProcessed |-> 0, errors |-> <<>>]
           /\ zipCalls' = zipCalls]_vars
  /\ []((hPc \in {"done", "failed"} /\ OnlyOtherRecords) => hPc = "done")

\* C29 (amended): as stated for the record; the handler completes without
\* raising when all records are of this kind or the batch is empty, provided
\* its start checkpoint passed: it raises only before the loop.
C29_NonZipSkipped ==
  /\ [][(Len(results') = Len(results) + 1 /\ records[Len(results')] = "other")
        => /\ results'[Len(results')] = [success |-> TRUE, filesProcessed |-> 0, errors |-> <<>>]
           /\ zipCalls' = zipCalls]_vars
  /\ []((hPc = "failed" /\ OnlyOtherRecords) => (started = <<>> /\ results = <<>>))
  /\ [][(hPc \in {"loop", "record", "epilogue"} /\ OnlyOtherRecords) => hPc' # "failed"]_vars

\* C29 witness: two records without .zip keys were skipped and the handler
\* completed
C29_Witness ==
  /\ hPc = "done"
  /\ records = <<"other", "other">>
  /\ Len(results) = 2
  /\ zipCalls = 0

\* the cell the transform is to add to row k
AddedCell(k) == IF k = 1 /\ hasHeaders THEN timestampColumn ELSE timestamp

\* C26: the transformed output has one row per parsed row, and each output
\* row is the parsed row followed by exactly one cell: the column name on a
\* detected header row, the timestamp on every other row, whatever the number
\* of cells of the row.
C26_OneColumnAdded ==
  (csvPc = "settled" /\ csvResult.kind = "buffer") =>
    /\ Len(csvResult.rows) = Len(parsed)
    /\ \A k \in 1..Len(parsed) : csvResult.rows[k] = Append(parsed[k], AddedCell(k))

C28_EmptyIsNoneHeaderOnlyIsKept ==
  (csvPc = "settled" /\ ~parseFailed) =>
    /\ parsed = <<>> => csvResult = NullResult
    /\ (Len(parsed) = 1 /\ detectHeaders(parsed[1])) =>
         csvResult = [kind |-> "buffer",
                      rows |-> <<Append(parsed[1], timestampColumn)>>]

C28_Witness ==
  /\ csvPc = "settled"
  /\ ~parseFailed
  /\ ~skipMalformed
  /\ parsed = <<>>
  /\ csvResult = NullResult

C28_WitnessHeaderOnly ==
  /\ csvPc = "settled"
  /\ parsed = << <<"name", "age", "city">> >>
  /\ csvResult.rows = << <<"name", "age", "city", "_processed">> >>

\* the calls that create or drop the instance
ClientChanging == {"recreateS3Client", "destroyS3Client"}

\* an instance exists after the first k calls: one was handed out and no
\* destroyS3Client call came after it
ClientExistsAfter(k) ==
  \E j \in 1..k :
    /\ clientCalls[j].op \in {"getS3Client", "recreateS3Client"}
    /\ \A m \in (j + 1)..k : clientCalls[m].op # "destroyS3Client"

\* C30: every getS3ClientInfo call answers isInitialized = true exactly when
\* a client instance exists at that point, and two getS3Client calls with no
\* recreateS3Client or destroyS3Client call between them return the same
\* instance.
C30_SingletonIsConsistent ==
  /\ \A k \in 1..Len(clientCalls) :
       clientCalls[k].op = "getS3ClientInfo" =>
         (clientCalls[k].isInitialized <=> ClientExistsAfter(k - 1))
  /\ \A j, k \in 1..Len(clientCalls) :
       ( /\ j < k
         /\ clientCalls[j].op = "getS3Client"
         /\ clientCalls[k].op = "getS3Client"
         /\ \A m \in (j + 1)..(k - 1) : clientCalls[m].op \notin ClientChanging )
       => clientCalls[j].instance = clientCalls[k].instance

C30_Witness ==
  /\ Len(clientCalls) = 4
  /\ clientCalls[1] = ClientCall("getS3Client", 1, FALSE)
  /\ clientCalls[2] = ClientCall("getS3ClientInfo", NoClient, TRUE)
  /\ clientCalls[3] = ClientCall("getS3Client", 1, FALSE)
  /\ clientCalls[4] = ClientCall("destroyS3Client", NoClient, FALSE)
  /\ s3ClientInstance = NoClient

\* C24: whatever the filename, the stem returned is not empty, contains no
\* path separator and no control character, and is "unknown" when the name is
\* blank.
C24_StemIsTotalAndPathSafe ==
  stemPc # "idle" =>
    /\ Len(stemName) > 0
    /\ \A k \in 1..Len(stemName) : CharAt(stemName, k) \notin ControlChars \cup {"/"}
    /\ trim(nameGiven) = "" => stemName = "unknown"

\* C25: extracting the stem of a stem gives the stem back.
C25_StemExtractionIdempotent ==
  stemPc = "again" => stemOfStem = stemName

\* a stream opened for the current entry is open: the transform reads it, or
\* uploadStream holds it before or while streamToBuffer reads it
EntryStreamOpen ==
  \/ pc = "csv_transform"
  \/ pc = "up_start" /\ attempt = 0
  \/ pc = "up_buffer" /\ attempt = 1

\* C22: within one archive no two entry streams are open at the same moment,
\* and when the reader hands over the next entry no upload attempt of an
\* earlier entry is still running.
C22_OneEntryAtATime ==
  /\ [](~(strayStream /\ EntryStreamOpen))
  /\ [][delivered' = delivered + 1 => ~abandoned]_vars

\* a record refused by validateS3Event has been handled
SomeInvalidRecordHandled == \E k \in 1..Len(results) : records[k] = "invalid"

\* C31 (as stated): a record that fails event validation causes no call of
\* the archive processor, hence no storage call, pushes exactly one failed
\* result, and every record after it in the batch is processed.
C31_InvalidRecordIsolated_AsStated ==
  /\ [][(Len(results') = Len(results) + 1 /\ records[Len(results')] = "invalid")
        => /\ results'[Len(results')] = FailedResult(InvalidRecord)
           /\ zipCalls' = zipCalls]_vars
  /\ []((hPc \in {"done", "failed"} /\ SomeInvalidRecordHandled)
          => Len(results) = Len(records))

\* C31 (amended): as stated for the record itself; the records after it are
\* processed unless the loop stops for lack of time: after the failed result
\* is pushed the next record is taken whenever 30 s or more remain, and a
\* batch is left unfinished only with less than 30 s remaining.
C31_InvalidRecordIsolated ==
  /\ [][(Len(results') = Len(results) + 1 /\ records[Len(results')] = "invalid")
        => /\ results'[Len(results')] = FailedResult(InvalidRecord)
           /\ zipCalls' = zipCalls
           /\ remainingTime' >= 30000 => (hPc' = "loop" /\ i' = i + 1)]_vars
  /\ []((hPc \in {"done", "failed"} /\ SomeInvalidRecordHandled
           /\ Len(results) < Len(records))
          => remainingTime < 30000)

\* C31 witness: the first record was refused, the second was an archive and
\* was processed after it
C31_Witness ==
  /\ hPc = "failed"
  /\ records = <<"invalid", "zip">>
  /\ results = <<FailedResult(InvalidRecord),
                 [success |-> TRUE, filesProcessed |-> 2, errors |-> <<>>]>>
  /\ zipCalls = 1

\* the body of the put an uploadStream attempt sends: what streamToBuffer
\* read from the entry stream in that attempt
PutBodyBytes == StreamBytes(entry.uncompressedSize, attempt)

\* C32: every put answered to uploadStream carried the complete bytes of the
\* entry, whatever the number of the attempt that sent it.
C32_EveryPutCarriesTheEntry ==
  [][(pc = "up_put" /\ puts' = puts + 1) => PutBodyBytes = entry.uncompressedSize]_vars

\* C33: the fallback that publishes the untransformed original starts only
\* from the transform (it returned none or threw) or from the opening of the
\* stream for it; when the transform succeeded and the upload of the
\* transformed bytes is refused or fails, the entry gets an error and no
\* fallback starts.
C33_OriginalOnlyWhenTransformFailed ==
  [][(pc \in {"csv_upload", "csv_put"} /\ pc' # pc /\ puts' = puts)
       => /\ route' \notin FallbackRoutes
          /\ pc' = "reading"
          /\ result' = [result EXCEPT !.errors = Append(@, EntryError)]]_vars

\* C34: no upload attempt abandoned by its timeout has its put answered after
\* the loop has recorded the entry and gone on, or after processZipFile has
\* returned the archive's result.
C34_NoPutAfterEntryReported == ~latePut

\* directories an entry of the archive can lie in
EntryDirs == {"", "a/", "b/"}

\* the name is that of a file entry: no directory and no dot segment
IsFileEntryName(name) == Len(name) > 0 /\ CharAt(name, Len(name)) \notin {"/", "."}

\* C35: two distinct file entries of one archive, here the same base name in
\* two different directories, are published under two different output keys.
C35_DistinctEntriesDistinctKeys ==
  (stemPc # "idle" /\ IsFileEntryName(nameGiven)) =>
    \A d1, d2 \in EntryDirs :
      d1 # d2 => outputKey(d1 \o nameGiven) # outputKey(d2 \o nameGiven)

\* every error recorded so far is among the errors of res
KeepsRecordedErrors(res) ==
  \A k \in 1..Len(result.errors) :
    \E j \in 1..Len(res.errors) : res.errors[j] = result.errors[k]

\* C36: every per-entry error recorded during an archive's run is present in
\* the errors of the result processZipFile returns, also when the archive
\* reader reports an error after some entries have failed.
C36_RecordedErrorsAreReturned ==
  [][(pc # "returned" /\ pc' = "returned") => KeepsRecordedErrors(result')]_vars

\* C37: the retry executor honours a structured error's retryable flag: an
\* error raised with retryable=true is followed by another attempt while
\* attempts remain, and one raised with retryable=false by none.
C37_RetryableFlagHonoured ==
  [][(retryPc = "running" /\ failures' = failures + 1)
       => /\ (retryable(lastError') = "true" /\ retryAttempt < opts.maxAttempts)
               => retryPc' = "delay"
          /\ retryable(lastError') = "false" => retryPc' # "delay"]_vars

\* positions of the pipeline inside the handling of one delivered entry
EntryPositions ==
  { "open", "csv_open", "csv_transform", "csv_upload", "csv_put",
    "up_start", "up_buffer", "up_check", "up_put", "up_delay" }

\* one error is appended to the result's errors and nothing is taken from them
OneErrorAppended ==
  /\ Len(result'.errors) = Len(result.errors) + 1
  /\ SubSeq(result'.errors, 1, Len(result.errors)) = result.errors
  /\ result'.filesProcessed = result.filesProcessed

\* the step ends the handling of the delivered entry
EntryHandled ==
  /\ pc \in EntryPositions \/ (pc = "reading" /\ delivered' = delivered + 1)
  /\ pc' \in {"reading", "returned"}

\* C38: for every entry delivered to the entry loop exactly one of three
\* things happens: filesProcessed grows by one and the next entry is requested;
\* one error is appended and the next entry is requested; or one error is
\* appended, success becomes false and no further entry is requested. So when
\* the loop ends, filesProcessed plus the number of errors is the number of
\* entries delivered.
C38_OneOutcomePerEntry ==
  /\ [][(pc \in EntryPositions) => (pc' \in (EntryPositions \cup {"reading", "returned"}))]_vars
  /\ [][EntryHandled =>
          \/ /\ pc' = "reading"
             /\ result' = [result EXCEPT !.filesProcessed = @ + 1]
          \/ /\ pc' = "reading"
             /\ OneErrorAppended
             /\ result'.success = result.success
          \/ /\ pc' = "returned" /\ loopEnd' = "abort"
             /\ OneErrorAppended
             /\ result'.success = FALSE]_vars
  /\ []((pc = "reading" \/ (pc = "returned" /\ loopEnd \in {"end", "abort"}))
          => result.filesProcessed + Len(result.errors) = delivered)

C40_ArchiveFinishes ==
  /\ (pc \notin {"idle", "returned"}) ~> (pc = "returned")
  /\ [][(loopEnd # "none" /\ loopEnd' # loopEnd) => archiveNo' = archiveNo + 1]_vars
  /\ [](loopEnd \in {"none", "end", "abort", "error"})

====
